---- MODULE Spec2Model ----
(***************************************************************************)
(* Agent decision-cycle core of simulacra: the stochastic outcome          *)
(* generator (ActionOutcomeGenerator), the state-update pipeline           *)
(* (StateUpdater), Agent.execute_action / update_internal_states and the   *)
(* TimeManager's rent and salary processing.                               *)
(*                                                                         *)
(* Numbers are fixed point.  Unit-interval quantities (mood, stress,       *)
(* self-control, stocks, context values, performance) are in hundredths;   *)
(* money is in cents; hours are whole hours.  A product of two fixed-point *)
(* numbers is rescaled with \div.  Every draw from numpy's generator is an *)
(* input of the action, chosen from a small set that holds values on both  *)
(* sides of each threshold the code tests.                                 *)
(***************************************************************************)
EXTENDS Integers, Sequences, FiniteSets, TLC

VARIABLES
    agent,      \* the Agent object (all mutable fields)
    pre,        \* the agent as it was when the last operation was called
    last,       \* the last operation: its name, action, outcome, how it ended
    steps,      \* number of operations performed so far
    sim         \* the Simulation: its agents, its TimeManager, its progress

vars == <<agent, pre, last, steps, sim>>

----------------------------------------------------------------------------
(* Bounds of the model *)

\* operations in one behaviour of Spec
MaxSteps == 2
\* gambles in one behaviour of SpecGamble
MaxGambles == 4

----------------------------------------------------------------------------
(* Arithmetic helpers *)

Min(a, b) == IF a <= b THEN a ELSE b
Max(a, b) == IF a >= b THEN a ELSE b
Abs(x) == IF x < 0 THEN -x ELSE x
\* np.clip(x, lo, hi)
Clip(x, lo, hi) == Min(Max(x, lo), hi)
\* Python's int(): truncation toward zero
Trunc(n, d) == IF n >= 0 THEN n \div d ELSE -((-n) \div d)

\* Optional[T]: None is the empty tuple, a value v is <<v>>
None == <<>>
Some(v) == <<v>>
IsNone(o) == o = <<>>
Get(o) == o[1]

----------------------------------------------------------------------------
(* Records of utils/types.py *)

GamblingContext0 ==
    [recent_outcomes |-> <<>>, loss_streak |-> 0, total_losses |-> 0,
     total_wins |-> 0, total_games |-> 0]

WorkPerformanceHistory0 ==
    [recent_performances |-> <<>>, average_performance |-> 100,
     months_employed |-> 0, warnings_received |-> 0]

EmploymentInfo(job_quality, base_salary) ==
    [job_quality |-> job_quality, base_salary |-> base_salary,
     performance_history |-> WorkPerformanceHistory0]

HousingInfo(housing_quality, monthly_rent) ==
    [plot_id |-> "none", housing_quality |-> housing_quality,
     monthly_rent |-> monthly_rent, months_at_residence |-> 0]

\* mutant: the average is taken over the new score and the old average
add_performance_running(h, performance) ==
    LET app == Append(h.recent_performances, performance)
        rp  == IF Len(app) > 12 THEN Tail(app) ELSE app
    IN  [h EXCEPT !.recent_performances = rp,
                  !.average_performance = (@ + performance) \div 2,
                  !.warnings_received =
                      IF performance < 50 THEN @ + 1 ELSE @]

\* WorkPerformanceHistory.add_performance
add_performance(h, performance) ==
    LET app == Append(h.recent_performances, performance)
        rp  == IF Len(app) > 12 THEN Tail(app) ELSE app
        SumSeq[i \in 0..Len(rp)] == IF i = 0 THEN 0 ELSE SumSeq[i - 1] + rp[i]
    IN  [h EXCEPT !.recent_performances = rp,
                  !.average_performance = SumSeq[Len(rp)] \div Len(rp),
                  !.warnings_received =
                      IF performance < 50 THEN @ + 1 ELSE @]

\* Agent.__init__
NewAgent(initial_wealth, initial_location) ==
    [current_location |-> initial_location,
     home |-> None,
     employment |-> None,
     mood |-> 0, stress |-> 0, self_control_resource |-> 100,
     wealth |-> initial_wealth, monthly_expenses |-> 80000,
     habit_drinking |-> 0, habit_gambling |-> 0,
     stock |-> 0, tolerance_level |-> 0, withdrawal_severity |-> 0,
     time_since_last_use |-> 0,
     craving_alcohol |-> 0, craving_gambling |-> 0,
     gambling_context |-> GamblingContext0,
     spent_hours |-> 0,
     action_history |-> <<>>]

\* Outcome variants (the message text is not modelled)
WorkOutcome(success, payment, performance, stress_increase) ==
    [kind |-> "Work", success |-> success, payment |-> payment,
     performance |-> performance, stress_increase |-> stress_increase]
GamblingOutcome(success, monetary_change, was_near_miss, psychological_impact) ==
    [kind |-> "Gambling", success |-> success,
     monetary_change |-> monetary_change, was_near_miss |-> was_near_miss,
     psychological_impact |-> psychological_impact]
DrinkingOutcome(success, cost, units_consumed, stress_relief, mood_change) ==
    [kind |-> "Drinking", success |-> success, cost |-> cost,
     units_consumed |-> units_consumed, stress_relief |-> stress_relief,
     mood_change |-> mood_change]
BeggingOutcome(success, income, social_cost, location_quality) ==
    [kind |-> "Begging", success |-> success, income |-> income,
     social_cost |-> social_cost, location_quality |-> location_quality]
JobSearchOutcome(success, job_found, job_quality, stress_change) ==
    [kind |-> "JobSearch", success |-> success, job_found |-> job_found,
     job_quality |-> job_quality, stress_change |-> stress_change]
HousingSearchOutcome(success, housing_found, housing_quality, rent_cost) ==
    [kind |-> "HousingSearch", success |-> success,
     housing_found |-> housing_found, housing_quality |-> housing_quality,
     rent_cost |-> rent_cost]
MoveOutcome(success, move_cost, stress_change, new_location) ==
    [kind |-> "Move", success |-> success, move_cost |-> move_cost,
     stress_change |-> stress_change, new_location |-> new_location]
RestOutcome(success, stress_reduction, mood_improvement, self_control_restoration) ==
    [kind |-> "Rest", success |-> success,
     stress_reduction |-> stress_reduction,
     mood_improvement |-> mood_improvement,
     self_control_restoration |-> self_control_restoration]
\* the base class, returned when no generator is registered
ActionOutcome(success) == [kind |-> "Base", success |-> success]

\* decision_making.Action
Action(action_type, time_cost, target, parameters) ==
    [action_type |-> action_type, time_cost |-> time_cost,
     target |-> target, parameters |-> parameters]

\* OutcomeContext
OutcomeContext(dw, lq, mc, sd) ==
    [district_wealth |-> dw, location_quality |-> lq,
     market_conditions |-> mc, social_density |-> sd]
DefaultContext == OutcomeContext(50, 50, 50, 50)

\* behavioral_economics.HabitFormationModule.update_habit_stock
update_habit_stock(current_stock, consumption) ==
    (80 * current_stock + 20 * consumption) \div 100

\* mutant: the stock does not decay
update_addiction_stock_no_decay(current_stock, consumption) ==
    Min(100, current_stock
             + (consumption * 10 * (100 - current_stock)) \div 10000)

\* behavioral_economics.AddictionModule.update_addiction_stock
update_addiction_stock(current_stock, consumption) ==
    Min(100, (93 * current_stock) \div 100
             + (consumption * 10 * (100 - current_stock)) \div 10000)

----------------------------------------------------------------------------
(* Random draws.  A normal draw N(mu, sigma) is mu + sigma * z for a drawn  *)
(* z-score; a uniform draw U(lo, hi) is lo + (hi - lo) * u for a drawn      *)
(* u in [0, 1) in hundredths; an exponential draw is its mean times a drawn *)
(* multiplier in hundredths.                                                *)

Normal(mu, sigma, z) == mu + sigma * z
Uniform(lo, hi, u) == lo + ((hi - lo) * u) \div 100
Exponential(mean, e) == (mean * e) \div 100

----------------------------------------------------------------------------
(* ActionOutcomeGenerator: each generator returns the outcome and the agent *)
(* as the generator leaves it (only the gambling generator writes to it).   *)

Generated(o, a) == [outcome |-> o, agent |-> a]

_generate_work_outcome(a, action, context, r) ==
    IF IsNone(a.employment)
    THEN Generated(WorkOutcome(FALSE, 0, 100, 0), a)
    ELSE
    LET emp  == Get(a.employment)
        hist == emp.performance_history
        base_performance ==
            IF hist.recent_performances # <<>>
            THEN 70 + (30 * hist.average_performance) \div 100
            ELSE 100
        stress_penalty     == (a.stress * 30) \div 100
        withdrawal_penalty == (a.withdrawal_severity * 40) \div 100
        mood_bonus         == (a.mood * 10) \div 100
        perf0 == Clip(base_performance - stress_penalty - withdrawal_penalty
                      + mood_bonus, 10, 150)
        performance == Clip((perf0 * Normal(100, 10, r.z)) \div 100, 10, 150)
        payment == (((emp.base_salary * performance) \div 100)
                    * action.time_cost) \div 160
        si0 == Max(0, Normal(5, 2, r.w))
        stress_increase ==
            IF performance < 70 THEN si0 + ((70 - performance) * 20) \div 100
            ELSE si0
    IN  Generated(WorkOutcome(TRUE, payment, performance, stress_increase), a)

\* the bet _generate_gambling_outcome stakes: the bet_amount parameter or the
\* default, scaled and capped at wealth on a loss streak
chosen_bet(a, action) ==
    LET bet0 == IF IsNone(action.parameters.bet_amount)
                THEN Min(5000, a.wealth \div 10)
                ELSE Get(action.parameters.bet_amount)
    IN  IF a.gambling_context.loss_streak >= 3
        THEN Min((bet0 * (10 + a.gambling_context.loss_streak)) \div 10,
                 a.wealth)
        ELSE bet0

\* mutant: the affordability check is missing
insufficient_funds_never(a, bet_amount) == FALSE

\* "Check if agent can afford bet"
insufficient_funds(a, bet_amount) == bet_amount > a.wealth

\* mutant: the list of recent outcomes is never trimmed
keep_recent_untrimmed(recent_outcomes) == recent_outcomes

\* "Keep only recent outcomes": pop(0) once the list is longer than 10
keep_recent(recent_outcomes) ==
    IF Len(recent_outcomes) > 10 THEN Tail(recent_outcomes)
    ELSE recent_outcomes

\* mutant: a win does not reset the streak
next_loss_streak_no_reset(loss_streak, won) ==
    IF won THEN loss_streak ELSE loss_streak + 1

\* loss_streak = 0 on a win, loss_streak += 1 on a loss
next_loss_streak(loss_streak, won) ==
    IF won THEN 0 ELSE loss_streak + 1

_generate_gambling_outcome(a, action, context, r) ==
    LET gc == a.gambling_context
        bet_amount == chosen_bet(a, action)
    IN  IF insufficient_funds(a, bet_amount)
        THEN Generated(GamblingOutcome(FALSE, 0, FALSE, 0), a)
        ELSE
        LET win_roll == r.u
            won == win_roll < 45
            was_near_miss == ~won /\ win_roll < 45 + 10
            payout_ratio == Uniform(105, 130, r.v)
            monetary_change ==
                IF won THEN (bet_amount * payout_ratio) \div 100 - bet_amount
                ELSE -bet_amount
            psychological_impact ==
                IF won THEN Normal(30, 10, r.z)
                ELSE IF was_near_miss THEN Normal(-10, 10, r.z)
                ELSE Normal(-20, 10, r.z)
            app == Append(gc.recent_outcomes,
                          GamblingOutcome(TRUE, monetary_change, was_near_miss,
                                          psychological_impact))
            gc2 == [gc EXCEPT
                      !.loss_streak = next_loss_streak(@, won),
                      !.total_losses = IF won THEN @ ELSE @ + bet_amount,
                      !.recent_outcomes = keep_recent(app)]
        IN  Generated(GamblingOutcome(TRUE, monetary_change, was_near_miss,
                                      psychological_impact),
                      [a EXCEPT !.gambling_context = gc2])

\* mutant: the affordable units are rounded up
affordable_units_rounded_up(a, cost_per_unit) ==
    (a.wealth + cost_per_unit - 1) \div cost_per_unit

\* "Reduce units to what they can afford"
affordable_units(a, cost_per_unit) == Trunc(a.wealth, cost_per_unit)

_generate_drinking_outcome(a, action, context, r) ==
    LET units0 == IF IsNone(action.parameters.units) THEN 2
                  ELSE Get(action.parameters.units)
        cost_per_unit == (800 * (50 + context.district_wealth)) \div 100
        total0 == units0 * cost_per_unit
        unaffordable == total0 > a.wealth
        affordable == affordable_units(a, cost_per_unit)
    IN  IF unaffordable /\ affordable = 0
        THEN Generated(DrinkingOutcome(FALSE, 0, 0, 0, 0), a)
        ELSE
        LET units == IF unaffordable THEN affordable ELSE units0
            total_cost == units * cost_per_unit
            tolerance_factor == 100 - (a.tolerance_level * 70) \div 100
            stress_relief ==
                Max(0, (30 * units * tolerance_factor) \div 100
                       + Normal(0, 10, r.z))
            mood_low  == (20 * units * tolerance_factor) \div 100
                         + Normal(0, 10, r.w)
            mood_high == (10 * units * tolerance_factor) \div 100
                         + Normal(0, 15, r.w)
            mood_change ==
                IF a.stock < 30 THEN mood_low
                ELSE IF tolerance_factor < 50
                     THEN (mood_high * Uniform(50, 100, r.v)) \div 100
                     ELSE mood_high
        IN  Generated(DrinkingOutcome(TRUE, total_cost, units, stress_relief,
                                      mood_change), a)

_generate_begging_outcome(a, action, context, r) ==
    LET \* dollars per hour, in cents
        base_income_per_hour ==
            (500 * context.district_wealth * context.location_quality)
            \div 10000
        density_multiplier == 50 + (context.social_density * 80) \div 100
        sympathy_factor == 100 + (IF a.stress > 70 THEN 30 ELSE 0)
                               + (IF a.mood < -50 THEN 20 ELSE 0)
        expected_income ==
            (base_income_per_hour * action.time_cost * density_multiplier
             * sympathy_factor) \div 10000
        income == Min(Exponential(expected_income, r.e), expected_income * 3)
        social_cost == Max(0, (context.district_wealth * 20) \div 100
                              + Normal(0, 5, r.z))
    IN  Generated(BeggingOutcome(TRUE, income, social_cost,
                                 context.location_quality), a)

_generate_job_search_outcome(a, action, context, r) ==
    LET base_success_prob == (30 * context.market_conditions) \div 100
        stress_penalty == (a.stress * 50) \div 100
        withdrawal_penalty == (a.withdrawal_severity * 40) \div 100
        mood_bonus == (Max(0, a.mood) * 40) \div 100
        success_prob ==
            Clip((base_success_prob
                  * (100 - stress_penalty - withdrawal_penalty + mood_bonus))
                 \div 100, 1, 80)
        job_found == r.u < success_prob
        job_quality ==
            IF job_found
            THEN Clip(Uniform(30, 90, r.v) + (a.mood * 10) \div 100, 10, 100)
            ELSE 0
        stress_change == IF job_found THEN -20 ELSE 10 + 10
    IN  Generated(JobSearchOutcome(TRUE, job_found, job_quality,
                                   stress_change), a)

_generate_housing_search_outcome(a, action, context, r) ==
    LET wealth_factor == Min(100, a.wealth \div 2000)
        success_prob ==
            (20 * wealth_factor * context.market_conditions) \div 10000
        housing_found == r.u < success_prob
        affordable_rent == (a.wealth * 30) \div 100
        tier == IF affordable_rent < 50000 THEN <<10, 40, 30000, 50000>>
                ELSE IF affordable_rent < 100000
                     THEN <<30, 70, 50000, 100000>>
                     ELSE <<60, 90, 80000, 150000>>
        housing_quality ==
            IF housing_found THEN Uniform(tier[1], tier[2], r.v) ELSE 0
        rent_cost ==
            IF housing_found THEN Uniform(tier[3], tier[4], r.v) ELSE 0
    IN  Generated(HousingSearchOutcome(TRUE, housing_found, housing_quality,
                                       rent_cost), a)

_generate_move_outcome(a, action, context, r) ==
    LET move_cost == (20000 * Uniform(80, 150, r.u)) \div 100
    IN  IF move_cost > a.wealth
        THEN Generated(MoveOutcome(FALSE, 0, 0, None), a)
        ELSE Generated(MoveOutcome(TRUE, move_cost, Normal(10, 5, r.z),
                                   action.target), a)

_generate_rest_outcome(a, action, context, r) ==
    LET location_multiplier == 50 + (context.location_quality * 50) \div 100
        withdrawal_penalty == (a.withdrawal_severity * 30) \div 100
        stress_reduction ==
            Max(0, (20 * location_multiplier * (100 - withdrawal_penalty))
                   \div 10000 + Normal(0, 5, r.z))
        mood_improvement ==
            (10 * location_multiplier * (100 - (withdrawal_penalty * 50) \div 100))
            \div 10000 + Normal(0, 3, r.w)
        self_control_restoration ==
            Max(0, (30 * location_multiplier
                    * (100 - (withdrawal_penalty * 20) \div 100))
                   \div 10000 + Normal(0, 5, r.w))
    IN  Generated(RestOutcome(TRUE, stress_reduction, mood_improvement,
                              self_control_restoration), a)

generate_outcome(a, action, context, r) ==
    CASE action.action_type = "WORK" ->
            _generate_work_outcome(a, action, context, r)
      [] action.action_type = "GAMBLE" ->
            _generate_gambling_outcome(a, action, context, r)
      [] action.action_type = "DRINK" ->
            _generate_drinking_outcome(a, action, context, r)
      [] action.action_type = "BEG" ->
            _generate_begging_outcome(a, action, context, r)
      [] action.action_type = "FIND_JOB" ->
            _generate_job_search_outcome(a, action, context, r)
      [] action.action_type = "FIND_HOUSING" ->
            _generate_housing_search_outcome(a, action, context, r)
      [] action.action_type = "MOVE_HOME" ->
            _generate_move_outcome(a, action, context, r)
      [] action.action_type = "REST" ->
            _generate_rest_outcome(a, action, context, r)
      [] OTHER -> Generated(ActionOutcome(FALSE), a)

\* mutant: the generators draw all their random numbers before they check
\* the constraint
random_draws_eager(a, action, context, r) ==
    CASE action.action_type = "GAMBLE" -> 3
      [] action.action_type = "FIND_HOUSING" -> 3
      [] action.action_type = "REST" -> 3
      [] OTHER -> 2

\* the number of calls of np.random.random, uniform, normal and exponential
\* that generate_outcome makes on the path it takes
random_draws(a, action, context, r) ==
    LET o == generate_outcome(a, action, context, r).outcome
    IN  CASE action.action_type = "WORK" ->
               \* none before the employment check, then lines 124 and 132
               IF IsNone(a.employment) THEN 0 ELSE 2
          [] action.action_type = "GAMBLE" ->
               \* none before the affordability check; then win_roll, the
               \* payout ratio of a win, and the psychological impact
               IF insufficient_funds(a, chosen_bet(a, action)) THEN 0
               ELSE IF r.u < 45 THEN 3 ELSE 2
          [] action.action_type = "DRINK" ->
               \* none before the affordability check; then stress relief,
               \* mood change, and the uniform factor of lines 279-280
               LET units0 == IF IsNone(action.parameters.units) THEN 2
                             ELSE Get(action.parameters.units)
                   cost_per_unit ==
                       (800 * (50 + context.district_wealth)) \div 100
                   tolerance_factor == 100 - (a.tolerance_level * 70) \div 100
               IN  IF units0 * cost_per_unit > a.wealth
                      /\ affordable_units(a, cost_per_unit) = 0
                   THEN 0
                   ELSE IF a.stock >= 30 /\ tolerance_factor < 50 THEN 3
                   ELSE 2
          [] action.action_type = "BEG" -> 2
          [] action.action_type = "FIND_JOB" ->
               IF o.job_found THEN 2 ELSE 1
          [] action.action_type = "FIND_HOUSING" ->
               IF o.housing_found THEN 3 ELSE 1
          [] action.action_type = "MOVE_HOME" ->
               \* the move cost is drawn before the check, the stress after
               IF (20000 * Uniform(80, 150, r.u)) \div 100 > a.wealth
               THEN 1 ELSE 2
          [] action.action_type = "REST" -> 3
          [] OTHER -> 0

----------------------------------------------------------------------------
(* StateUpdater: each updater returns the agent it leaves and whether it    *)
(* raised.  On a raise the agent keeps the assignments made before it.      *)

Updated(a) == [agent |-> a, raised |-> FALSE]
Raised(a)  == [agent |-> a, raised |-> TRUE]

_apply_work_outcome(a, o) ==
    IF ~o.success THEN Updated(a)
    ELSE
    LET self_control_cost == (10 * o.stress_increase) \div 5
        a1 == [a EXCEPT
                 !.wealth = @ + o.payment,
                 !.stress = Clip(@ + o.stress_increase, 0, 100),
                 !.self_control_resource = Max(0, @ - self_control_cost)]
    IN  IF IsNone(a.employment) THEN Updated(a1)
        ELSE
        LET emp == Get(a.employment)
            h1  == add_performance(emp.performance_history, o.performance)
            h2  == [h1 EXCEPT !.months_employed = @ + 1]
        IN  Updated([a1 EXCEPT !.employment =
                        Some([emp EXCEPT !.performance_history = h2])])

\* numpy: whether outcome.monetary_change is a numpy.float64 (then a division
\* by the integer 0 that max(0, wealth) returned yields inf) or a Python
\* float (then it raises ZeroDivisionError).
_apply_gambling_outcome(a, o, numpy) ==
    IF ~o.success THEN Updated(a)
    ELSE
    LET a1 == [a EXCEPT
                 !.wealth = Max(0, @ + o.monetary_change),
                 !.mood = Clip(@ + o.psychological_impact, -100, 100),
                 !.habit_gambling = update_habit_stock(@, 100),
                 !.self_control_resource = Max(0, @ - 15)]
        lost == o.monetary_change < 0
        stress_increase ==
            IF a1.wealth = 0 THEN 20
            ELSE Min(20, (Abs(o.monetary_change) * 100) \div a1.wealth)
        a2 == IF lost
              THEN [a1 EXCEPT !.stress = Min(100, @ + stress_increase)]
              ELSE a1
        gc == a2.gambling_context
        gc2 == [gc EXCEPT
                  !.total_games = @ + 1,
                  !.total_wins =
                      IF o.monetary_change > 0 THEN @ + o.monetary_change
                      ELSE @,
                  !.total_losses =
                      IF o.monetary_change > 0 THEN @
                      ELSE @ + Abs(o.monetary_change)]
    IN  IF lost /\ a1.wealth = 0 /\ ~numpy
        THEN Raised(a1)
        ELSE Updated([a2 EXCEPT !.gambling_context = gc2])

_apply_drinking_outcome(a, o) ==
    IF ~o.success THEN Updated(a)
    ELSE
    LET consumption == o.units_consumed * 10
    IN  Updated([a EXCEPT
          !.wealth = Max(0, @ - o.cost),
          !.mood = Clip(@ + o.mood_change, -100, 100),
          !.stress = Clip(@ - o.stress_relief, 0, 100),
          !.time_since_last_use = 0,
          !.withdrawal_severity = 0,
          !.stock = update_addiction_stock(@, consumption),
          !.tolerance_level = Min(100, @ + (consumption * 2) \div 100),
          !.habit_drinking = update_habit_stock(@, consumption),
          !.self_control_resource = Max(0, @ - (10 * consumption) \div 100)])

_apply_begging_outcome(a, o) ==
    IF ~o.success THEN Updated(a)
    ELSE Updated([a EXCEPT
          !.wealth = @ + o.income,
          !.mood = Clip(@ - o.social_cost, -100, 100),
          !.stress = Clip(@ + (o.social_cost * 50) \div 100, 0, 100)])

_apply_job_search_outcome(a, o) ==
    IF ~o.success THEN Updated(a)
    ELSE
    LET a1 == [a EXCEPT !.stress = Clip(@ + o.stress_change, 0, 100)]
    IN  IF o.job_found
        THEN Updated([a1 EXCEPT
               !.employment =
                   Some(EmploymentInfo(o.job_quality,
                                       150000 + o.job_quality * 2000)),
               !.monthly_expenses = 60000 + o.job_quality * 400,
               !.mood = Min(100, @ + 30)])
        ELSE Updated(a1)

_apply_housing_search_outcome(a, o) ==
    IF ~o.success THEN Updated(a)
    ELSE IF o.housing_found
         THEN Updated([a EXCEPT
                !.home = Some(HousingInfo(o.housing_quality, o.rent_cost)),
                !.mood = Min(100, @ + 20),
                !.stress = Max(0, @ - 10)])
         ELSE Updated(a)

\* mutant: the success check is missing
_apply_move_outcome_unguarded(a, o) ==
    Updated([a EXCEPT
          !.wealth = Max(0, @ - o.move_cost),
          !.stress = Min(100, @ + o.stress_change)])

_apply_move_outcome(a, o) ==
    IF ~o.success THEN Updated(a)
    ELSE Updated([a EXCEPT
          !.wealth = Max(0, @ - o.move_cost),
          !.stress = Min(100, @ + o.stress_change)])

\* mutant: self-control is not capped at 1
_apply_rest_outcome_uncapped(a, o) ==
    IF ~o.success THEN Updated(a)
    ELSE Updated([a EXCEPT
          !.stress = Max(0, @ - o.stress_reduction),
          !.mood = Clip(@ + o.mood_improvement, -100, 100),
          !.self_control_resource = @ + o.self_control_restoration])

_apply_rest_outcome(a, o) ==
    IF ~o.success THEN Updated(a)
    ELSE Updated([a EXCEPT
          !.stress = Max(0, @ - o.stress_reduction),
          !.mood = Clip(@ + o.mood_improvement, -100, 100),
          !.self_control_resource =
              Min(100, @ + o.self_control_restoration)])

apply_outcome(a, o, numpy) ==
    CASE o.kind = "Work"          -> _apply_work_outcome(a, o)
      [] o.kind = "Gambling"      -> _apply_gambling_outcome(a, o, numpy)
      [] o.kind = "Drinking"      -> _apply_drinking_outcome(a, o)
      [] o.kind = "Begging"       -> _apply_begging_outcome(a, o)
      [] o.kind = "JobSearch"     -> _apply_job_search_outcome(a, o)
      [] o.kind = "HousingSearch" -> _apply_housing_search_outcome(a, o)
      [] o.kind = "Move"          -> _apply_move_outcome(a, o)
      [] o.kind = "Rest"          -> _apply_rest_outcome(a, o)
      [] OTHER                    -> Updated(a)

----------------------------------------------------------------------------
(* Agent *)

\* deque(maxlen=100): the length the action history is kept to
HistoryLimit == 100

\* deque.append on the action history: the oldest entry is dropped when full
history_append(h, entry) ==
    LET app == Append(h, entry)
    IN  IF Len(app) > HistoryLimit THEN Tail(app) ELSE app

\* ActionBudget.spend
spend(a, hours) == [a EXCEPT !.spent_hours = @ + hours]

\* Agent.record_action: apply, then append to the history, then spend.  An
\* exception from apply_outcome leaves the history and the budget alone.
record_action(a, action, outcome, numpy) ==
    LET u == apply_outcome(a, outcome, numpy)
    IN  IF u.raised THEN u
        ELSE Updated(spend([u.agent EXCEPT !.action_history =
                               history_append(@, <<action, outcome>>)],
                           action.time_cost))

\* Agent._move_to_location
_move_to_location(a, target_location) ==
    [a EXCEPT !.current_location = Some(target_location)]

\* Agent.execute_action: the outcome and the agent it leaves
execute_action(a, action, context, r, numpy) ==
    LET a1 == IF ~IsNone(action.target) /\ action.target # a.current_location
              THEN _move_to_location(a, Get(action.target))
              ELSE a
        g  == generate_outcome(a1, action, context, r)
        u  == record_action(g.agent, action, g.outcome, numpy)
    IN  [outcome |-> g.outcome, agent |-> u.agent, raised |-> u.raised]

\* behavioral_economics.AddictionModule.calculate_withdrawal_severity
calculate_withdrawal_severity(addiction_stock, time_since_use) ==
    IF time_since_use = 0 \/ addiction_stock = 0 THEN 0
    ELSE
    LET base_severity == (addiction_stock * 50) \div 100
        time_factor ==
            IF time_since_use <= 7 THEN (time_since_use * 100) \div 7
            ELSE Max(0, 100 - ((time_since_use - 7) * 100) \div 14)
    IN  Min(100, (base_severity * time_factor) \div 100)

\* Agent._update_addiction_states (delta_time = 1)
_update_addiction_states(a) ==
    LET a1 == [a EXCEPT !.tolerance_level = (@ * 95) \div 100]
        a2 == IF a1.time_since_last_use > 0
              THEN [a1 EXCEPT
                      !.withdrawal_severity =
                          calculate_withdrawal_severity(a1.stock,
                                                        a1.time_since_last_use),
                      !.stock = update_addiction_stock(@, 0)]
              ELSE a1
    IN  [a2 EXCEPT !.time_since_last_use = @ + 1]

\* Agent._update_habit_stocks (delta_time = 1)
_update_habit_stocks(a) ==
    [a EXCEPT !.habit_drinking = (@ * 95) \div 100,
              !.habit_gambling = (@ * 95) \div 100]

\* Agent._update_cravings
_update_cravings(a) ==
    LET base0 == (a.withdrawal_severity * 50) \div 100 + (a.stock * 10) \div 100
        base_craving == IF a.stress > 70 THEN (base0 * 130) \div 100 ELSE base0
        g0 == (a.habit_gambling * 20) \div 100
        gambling_craving ==
            IF a.wealth < a.monthly_expenses THEN (g0 * 150) \div 100 ELSE g0
    IN  [a EXCEPT !.craving_alcohol = Min(100, base_craving),
                  !.craving_gambling = Min(100, gambling_craving)]

\* Agent._update_mood_and_stress (delta_time = 1)
_update_mood_and_stress(a) ==
    LET base_stress ==
            10 + (IF a.wealth * 100 < a.monthly_expenses * 50 THEN 20 ELSE 0)
               + (IF IsNone(a.employment) THEN 15 ELSE 0)
               + (IF IsNone(a.home) THEN 25 ELSE 0)
        stress_diff == a.stress - base_stress
    IN  [a EXCEPT
          !.mood = Clip((@ * 90) \div 100, -100, 100),
          !.stress = Clip(base_stress + (stress_diff * 80) \div 100, 0, 100)]

\* Agent._restore_self_control (delta_time = 1)
_restore_self_control(a) ==
    LET r0 == 10
        r1 == IF ~IsNone(a.home) THEN (r0 * 120) \div 100 ELSE r0
        restoration_rate ==
            IF ~IsNone(a.employment) THEN (r1 * 110) \div 100 ELSE r1
    IN  [a EXCEPT !.self_control_resource = Min(100, @ + restoration_rate)]

\* EnvironmentalCue: cue_type and intensity (hundredths)
AlcoholCue(intensity) == [cue_type |-> "ALCOHOL_CUE", intensity |-> intensity]
GamblingCue(intensity) ==
    [cue_type |-> "GAMBLING_CUE", intensity |-> intensity]
FinancialStressCue(intensity) ==
    [cue_type |-> "FINANCIAL_STRESS_CUE", intensity |-> intensity]

\* Agent.process_environmental_cues: the body of the loop, for one cue
process_cue(a, cue) ==
    CASE cue.cue_type = "ALCOHOL_CUE" ->
            IF a.stock > 0
            THEN [a EXCEPT !.craving_alcohol =
                     (@ * (100 + (cue.intensity * 30) \div 100)) \div 100]
            ELSE a
      [] cue.cue_type = "GAMBLING_CUE" ->
            IF a.habit_gambling > 0
            THEN [a EXCEPT !.craving_gambling =
                     (@ * (100 + (cue.intensity * 40) \div 100)) \div 100]
            ELSE a
      [] cue.cue_type = "FINANCIAL_STRESS_CUE" ->
            [a EXCEPT !.stress = Min(100, @ + (cue.intensity * 20) \div 100)]
      [] OTHER -> a

\* Agent.process_environmental_cues
RECURSIVE process_environmental_cues(_, _)
process_environmental_cues(a, cues) ==
    IF cues = <<>> THEN a
    ELSE process_environmental_cues(process_cue(a, Head(cues)), Tail(cues))

\* Agent.update_internal_states (delta_time = 1)
update_internal_states(a) ==
    _restore_self_control(
      _update_mood_and_stress(
        _update_cravings(
          _update_habit_stocks(
            _update_addiction_states(a)))))

----------------------------------------------------------------------------
(* TimeManager: monthly payments, for the one agent of the model *)

\* mutant: the evicted agent stays where it is
_handle_eviction_in_place(a) ==
    [a EXCEPT !.home = None,
              !.stress = Min(100, @ + 40),
              !.mood = Max(-100, @ - 40)]

\* TimeManager._handle_eviction
_handle_eviction(a) ==
    [a EXCEPT !.home = None,
              !.current_location = None,
              !.stress = Min(100, @ + 40),
              !.mood = Max(-100, @ - 40)]

\* TimeManager._handle_job_loss
_handle_job_loss(a) ==
    [a EXCEPT !.employment = None,
              !.stress = Min(100, @ + 30),
              !.mood = Max(-100, @ - 20)]

\* mutant: rent is deducted without comparing it with wealth
_process_rent_payments_unchecked(a) ==
    IF IsNone(a.home) THEN a
    ELSE [a EXCEPT !.wealth = @ - Get(a.home).monthly_rent,
                   !.home = Some([Get(a.home) EXCEPT
                                    !.months_at_residence = @ + 1])]

\* TimeManager._process_rent_payments
_process_rent_payments(a) ==
    IF IsNone(a.home) THEN a
    ELSE
    LET h == Get(a.home)
        rent_amount == h.monthly_rent
    IN  IF a.wealth >= rent_amount
        THEN [a EXCEPT !.wealth = @ - rent_amount,
                       !.home = Some([h EXCEPT !.months_at_residence = @ + 1])]
        ELSE _handle_eviction(a)

\* TimeManager._process_salary_payments
_process_salary_payments(a) ==
    IF IsNone(a.employment) THEN a
    ELSE
    LET emp == Get(a.employment)
        hist == emp.performance_history
        actual_salary == (emp.base_salary * hist.average_performance) \div 100
        a1 == [a EXCEPT
                 !.wealth = @ + actual_salary,
                 !.employment =
                     Some([emp EXCEPT
                             !.performance_history.months_employed = @ + 1])]
    IN  IF hist.warnings_received >= 3 THEN _handle_job_loss(a1) ELSE a1

----------------------------------------------------------------------------
(* Inputs *)

\* z-scores of the normal draws
ZScores == {-3, 3}
\* values of np.random.random(): a win (< 0.45), a near miss, a loss
Rolls == {20, 50, 80}
\* positions in a uniform range
Fractions == {0, 99}
\* values of np.random.random() in a search: below and above any probability
SearchRolls == {0, 90}
\* multipliers of the exponential draw's mean (the last one is capped)
ExpMultipliers == {0, 400}

Draw(u, v, z, w, e) == [u |-> u, v |-> v, z |-> z, w |-> w, e |-> e]

Contexts == {DefaultContext, OutcomeContext(100, 100, 100, 100)}

\* Action.parameters: the keys the generators read, each present or not
NoParams == [bet_amount |-> None, units |-> None]
BetParams(b) == [bet_amount |-> b, units |-> None]
UnitParams(n) == [bet_amount |-> None, units |-> n]

\* bet_amount parameters, in cents
Bets == {None, Some(5000), Some(1000000)}
\* units parameters
Units == {None, Some(3)}

\* Agents as the constructor, the tests' fixtures and the population
\* generator leave them.
FreshAgent == NewAgent(100000, None)
EmployedAgent ==
    [NewAgent(100000, Some("home")) EXCEPT
       !.employment = Some(EmploymentInfo(70, 200000)),
       !.home = Some(HousingInfo(50, 80000))]
DistressedAgent ==
    [NewAgent(5000, Some("street")) EXCEPT
       !.mood = -60, !.stress = 80, !.self_control_resource = 10,
       !.stock = 70, !.tolerance_level = 80, !.withdrawal_severity = 50,
       !.time_since_last_use = 3,
       !.habit_drinking = 50, !.habit_gambling = 50,
       !.home = Some(HousingInfo(20, 30000))]
BrokeAgent ==
    [NewAgent(0, None) EXCEPT
       !.mood = 100, !.stress = 100, !.self_control_resource = 0,
       !.employment = Some(EmploymentInfo(50, 150000))]

InitAgents == {FreshAgent, EmployedAgent, DistressedAgent, BrokeAgent}

\* no Simulation has been constructed
NoSimulation == [agents |-> <<>>]

NoOp ==
    [op |-> "init", action |-> None, context |-> None, draws |-> None,
     outcome |-> None, raised |-> FALSE, random_calls |-> 0]

Init ==
    /\ agent \in InitAgents
    /\ pre = agent
    /\ last = NoOp
    /\ steps = 0
    /\ sim = NoSimulation

----------------------------------------------------------------------------
(* Decision and agent turn *)

\* ActionBudget.total_hours
total_hours == 280

\* mutant: every action is affordable
can_afford_always(a, hours) == TRUE

\* ActionBudget.can_afford
can_afford(a, hours) == a.spent_hours + hours <= total_hours

\* the list s with x appended when the condition holds
AppendIf(s, cond, x) == IF cond THEN Append(s, x) ELSE s

\* the agent's location and the plot of its home ("none": None; a home made
\* by the updater has no plot_id)
here(a) == IF IsNone(a.current_location) THEN "none"
           ELSE Get(a.current_location)
PlotTarget(plot_id) == IF plot_id = "none" THEN None ELSE Some(plot_id)

\* generate_available_actions lines 532-555: REST, and MOVE_HOME for an agent
\* away from its home, taking move_time hours
rest_and_move_home(a, move_time) ==
    LET s1 == AppendIf(<<>>, can_afford(a, 4),
                       Action("REST", 4, None, NoParams))
    IN  AppendIf(s1, /\ ~IsNone(a.home)
                     /\ here(a) # Get(a.home).plot_id
                     /\ can_afford(a, 20)
                     /\ can_afford(a, move_time),
                 Action("MOVE_HOME", move_time,
                        PlotTarget(Get(a.home).plot_id), NoParams))

\* generate_available_actions lines 676-705: the branch taken without a
\* movement system or without a location
location_free_actions(s2, a) ==
    LET s3 == AppendIf(s2, ~IsNone(a.employment) /\ can_afford(a, 160),
                       Action("WORK", 160, None, NoParams))
        s4 == AppendIf(s3, IsNone(a.employment) /\ can_afford(a, 20),
                       Action("FIND_JOB", 20, None, NoParams))
        s5 == AppendIf(s4, IsNone(a.home) /\ can_afford(a, 10),
                       Action("FIND_HOUSING", 10, None, NoParams))
        s6 == AppendIf(s5, can_afford(a, 2) /\ a.wealth > 2000,
                       Action("DRINK", 2, None, UnitParams(Some(2))))
        s7 == AppendIf(s6, can_afford(a, 4) /\ a.wealth > 1000,
                       Action("GAMBLE", 4, None, NoParams))
    IN  AppendIf(s7, can_afford(a, 8), Action("BEG", 8, None, NoParams))

\* decision_making.generate_available_actions without a movement system
\* (hours are ActionCost's)
generate_available_actions(a) ==
    location_free_actions(rest_and_move_home(a, 20), a)

\* MovementSystem.calculate_movement_time from the agent's location to a
\* plot of the city, travel_time hours away unless the agent is there
calculate_movement_time(a, to_plot, travel_time) ==
    IF here(a) = to_plot THEN 0 ELSE travel_time

\* one target of generate_available_actions lines 558-675: the nearest
\* building of the kind, offered if it is reachable in the hours left after
\* the action and the action with the travel to it is affordable
AppendTarget(s, a, cond, action_type, cost, plot, parameters, travel_time) ==
    LET t == calculate_movement_time(a, plot, travel_time)
        total_time == cost + t
    IN  AppendIf(s, /\ cond
                    /\ t <= (total_hours - a.spent_hours) - cost
                    /\ can_afford(a, total_time),
                 Action(action_type, total_time, Some(plot), parameters))

\* decision_making.generate_available_actions with the movement system of
\* the Simulation, every building travel_time hours away.  raised: the
\* ValueError of calculate_movement_time on a plot that is None.
generate_available_actions_moving(a, travel_time) ==
    LET moves_home == /\ ~IsNone(a.home)
                      /\ here(a) # Get(a.home).plot_id
                      /\ can_afford(a, 20)
        s2 == rest_and_move_home(a, travel_time)
    IN  IF moves_home /\ (here(a) = "none" \/ Get(a.home).plot_id = "none")
        THEN [raised |-> TRUE, actions |-> <<>>]
        ELSE IF IsNone(a.current_location)
        THEN [raised |-> FALSE, actions |-> location_free_actions(s2, a)]
        ELSE
        LET s3 == AppendTarget(s2, a,
                     ~IsNone(a.employment) /\ can_afford(a, 160),
                     "WORK", 160, "work", NoParams, travel_time)
            s4 == AppendTarget(s3, a,
                     IsNone(a.employment) /\ can_afford(a, 20),
                     "FIND_JOB", 20, "employer", NoParams, travel_time)
            s5 == AppendTarget(s4, a,
                     IsNone(a.home) /\ can_afford(a, 10),
                     "FIND_HOUSING", 10, "housing", NoParams, travel_time)
            s6 == AppendTarget(s5, a, a.wealth > 2000,
                     "DRINK", 2, "bar", UnitParams(Some(2)), travel_time)
            s7 == AppendTarget(s6, a, a.wealth > 1000,
                     "GAMBLE", 4, "casino", NoParams, travel_time)
        IN  [raised |-> FALSE,
             actions |-> AppendTarget(s7, a, TRUE, "BEG", 8, "plaza",
                                      NoParams, travel_time)]

\* Agent.get_max_craving
get_max_craving(a) == Max(a.craving_alcohol, a.craving_gambling)

\* UtilityWeights(): the weights are the fractions financial/unit, ...,
\* psychological/unit, kept exact
UtilityWeights0 ==
    [financial |-> 30, habit |-> 15, addiction |-> 20, psychological |-> 35,
     unit |-> 100]

\* weights.<name> *= num/den
TimesFinancial(w, num, den) ==
    [financial |-> w.financial * num, habit |-> w.habit * den,
     addiction |-> w.addiction * den, psychological |-> w.psychological * den,
     unit |-> w.unit * den]
TimesAddiction(w, num, den) ==
    [financial |-> w.financial * den, habit |-> w.habit * den,
     addiction |-> w.addiction * num, psychological |-> w.psychological * den,
     unit |-> w.unit * den]
TimesPsychological(w, num, den) ==
    [financial |-> w.financial * den, habit |-> w.habit * den,
     addiction |-> w.addiction * den, psychological |-> w.psychological * num,
     unit |-> w.unit * den]

\* mutant: the weights are left as they were rescaled
normalize_skipped(w) == w

\* UtilityWeights.normalize: every weight is divided by the total
normalize(w) ==
    LET total == w.financial + w.habit + w.addiction + w.psychological
    IN  IF total > 0 THEN [w EXCEPT !.unit = total] ELSE w

\* the three triggers of _calculate_state_dependent_weights
high_craving(a) == get_max_craving(a) > 50
financial_pressure(a) == 2 * a.wealth < a.monthly_expenses
high_stress(a) == a.stress > 70

\* UtilityCalculator._calculate_state_dependent_weights
_calculate_state_dependent_weights(a) ==
    LET w1 == IF high_craving(a)
              THEN normalize(TimesFinancial(
                       TimesAddiction(UtilityWeights0,
                                      100 + get_max_craving(a), 100), 1, 2))
              ELSE UtilityWeights0
        w2 == IF financial_pressure(a)
              THEN normalize(TimesFinancial(w1, 2, 1))
              ELSE w1
    IN  IF high_stress(a)
        THEN normalize(TimesAddiction(TimesPsychological(w2, 3, 2), 6, 5))
        ELSE w2

\* Softmax selection.  Utilities and the temperature are in hundredths, the
\* argument of exp in tenths, exp(x) in units of 1/ExpScale and a probability
\* in units of 1/ProbScale.
ExpScale == 10000
ProbScale == 10000
\* the range of exp: inf above ExpOverflow, 0 below -ExpUnderflow (in tenths)
ExpOverflow == 30
ExpUnderflow == 120
Inf == -1

\* e^(-k/10) and e^(k/10): one factor e^(-1) or e per unit and e^(-0.1) or
\* e^(0.1) per tenth, rounded down as the value is stored
RECURSIVE ExpNeg(_)
ExpNeg(k) ==
    IF k = 0 THEN ExpScale
    ELSE IF k >= 10 THEN (ExpNeg(k - 10) * 368) \div 1000
    ELSE (ExpNeg(k - 1) * 905) \div 1000
RECURSIVE ExpPos(_)
ExpPos(k) ==
    IF k = 0 THEN ExpScale
    ELSE IF k >= 10 THEN (ExpPos(k - 10) * 2718) \div 1000
    ELSE (ExpPos(k - 1) * 1105) \div 1000

\* np.exp
exp(x) ==
    IF x > ExpOverflow THEN Inf
    ELSE IF x >= 0 THEN ExpPos(x)
    ELSE IF -x > ExpUnderflow THEN 0
    ELSE ExpNeg(-x)

RECURSIVE SeqMax(_)
SeqMax(s) == IF Len(s) = 1 THEN s[1] ELSE Max(s[1], SeqMax(Tail(s)))
RECURSIVE SeqTotal(_)
SeqTotal(s) == IF s = <<>> THEN 0 ELSE s[1] + SeqTotal(Tail(s))

\* mutant: the maximum is not subtracted
utilities_unshifted(utilities) == utilities

\* utilities - np.max(utilities)
utilities_stable(utilities) ==
    [i \in 1..Len(utilities) |-> utilities[i] - SeqMax(utilities)]

\* exp_utilities / np.sum(exp_utilities) of _softmax_selection and
\* get_action_probabilities; nan: a quotient 0/0 or inf/inf
softmax(utilities, temperature) ==
    LET stable == utilities_stable(utilities)
        exp_utilities ==
            [i \in 1..Len(utilities) |-> exp((stable[i] * 10) \div temperature)]
        overflow == \E i \in 1..Len(utilities) : exp_utilities[i] = Inf
        total == IF overflow THEN Inf ELSE SeqTotal(exp_utilities)
    IN  IF overflow \/ total = 0
        THEN [nan |-> TRUE, probabilities |-> [i \in 1..Len(utilities) |-> 0]]
        ELSE [nan |-> FALSE,
              probabilities |->
                  [i \in 1..Len(utilities) |->
                      (exp_utilities[i] * ProbScale) \div total]]

\* the positions np.random.choice(n, p = probabilities) can return
choice_support(p) == {i \in 1..Len(p) : p[i] > 0}

\* mutant: the empty list is noticed only when the selection is drawn
choose_action_late_check(a, available_actions, selected_idx) ==
    IF available_actions = <<>>
    THEN [raised |-> TRUE, action |-> None, evaluated |-> 0,
          random_calls |-> 1]
    ELSE [raised |-> FALSE, action |-> Some(available_actions[selected_idx]),
          evaluated |-> Len(available_actions), random_calls |-> 1]

\* DecisionMaker.choose_action: ValueError on an empty list; otherwise every
\* action is evaluated (the agent is only read) and one is drawn by
\* np.random.choice, here the one at selected_idx
choose_action(a, available_actions, selected_idx) ==
    IF available_actions = <<>>
    THEN [raised |-> TRUE, action |-> None, evaluated |-> 0,
          random_calls |-> 0]
    ELSE [raised |-> FALSE, action |-> Some(available_actions[selected_idx]),
          evaluated |-> Len(available_actions), random_calls |-> 1]

\* Agent.make_decision
make_decision(a, available_actions, selected_idx) ==
    choose_action(a, available_actions, selected_idx)

\* the turn of an agent whose available actions could not be generated
TurnFailed(a1) ==
    [agent |-> a1, listed |-> FALSE, offered |-> <<>>, decided |-> FALSE,
     action |-> None, outcome |-> None, caught |-> TRUE]

\* mutant: the turn goes on to the decision with an empty list
_process_agent_turn_unchecked(a, cues, travel_time, selected_idx, r, numpy) ==
    LET a1 == process_environmental_cues(a, cues)
        g == generate_available_actions_moving(a1, travel_time)
        available_actions == g.actions
        d == make_decision(a1, available_actions, selected_idx)
    IN  IF g.raised THEN TurnFailed(a1)
        ELSE IF d.raised
        THEN [agent |-> a1, listed |-> TRUE, offered |-> available_actions,
              decided |-> TRUE, action |-> None, outcome |-> None,
              caught |-> TRUE]
        ELSE LET e == execute_action(a1, Get(d.action), DefaultContext, r,
                                     numpy)
             IN  [agent |-> e.agent, listed |-> TRUE,
                  offered |-> available_actions,
                  decided |-> TRUE, action |-> d.action,
                  outcome |-> Some(e.outcome), caught |-> e.raised]

\* Simulation._process_agent_turn: cues, available actions (every building
\* travel_time hours away), decision and execution; an exception is caught
\* and logged
_process_agent_turn(a, cues, travel_time, selected_idx, r, numpy) ==
    LET a1 == process_environmental_cues(a, cues)
        g == generate_available_actions_moving(a1, travel_time)
        available_actions == g.actions
    IN  IF g.raised THEN TurnFailed(a1)
        ELSE IF available_actions = <<>>
        THEN [agent |-> a1, listed |-> TRUE, offered |-> available_actions,
              decided |-> FALSE, action |-> None, outcome |-> None,
              caught |-> FALSE]
        ELSE
        LET d == make_decision(a1, available_actions, selected_idx)
            e == execute_action(a1, Get(d.action), DefaultContext, r, numpy)
        IN  [agent |-> e.agent, listed |-> TRUE,
             offered |-> available_actions,
             decided |-> TRUE, action |-> d.action,
             outcome |-> Some(e.outcome), caught |-> e.raised]

----------------------------------------------------------------------------
(* TimeManager and Simulation.  The record w is the Simulation: its agents, *)
(* the fields of its TimeManager, its progress, and a log of what was done  *)
(* since the last start_new_month.                                          *)

\* MonthlyStats(month, year)
MonthlyStats(month, year) ==
    [month |-> month, year |-> year, total_actions |-> 0,
     total_rent_collected |-> 0, total_salaries_paid |-> 0,
     agents_lost_jobs |-> 0, agents_evicted |-> 0]

\* ScheduledEvent(event_type, data = {'target_round': target_round})
ScheduledEvent(event_type, target_round) ==
    [event_type |-> event_type, target_round |-> target_round]

\* what was done since the last start_new_month
MonthLog(n) ==
    [rent_deductions |-> [i \in 1..n |-> 0],
     salary_payments |-> [i \in 1..n |-> 0],
     turns |-> [i \in 1..n |-> 0],
     turn_rounds |-> [i \in 1..n |-> <<>>],
     events_processed |-> 0,
     advances |-> 0,
     month_ends |-> 0]

\* Simulation(city, config) after add_agents: TimeManager.__init__ and
\* set_rounds_per_month(config.rounds_per_month)
Simulation(agents, rounds_per_month) ==
    [agents |-> agents,
     current_round |-> 0,
     max_rounds_per_month |-> rounds_per_month,
     month |-> 1, year |-> 1,
     scheduled_events |-> <<>>,
     monthly_stats |-> <<>>,
     current_month_stats |-> MonthlyStats(1, 1),
     is_running |-> FALSE,
     months_completed |-> 0,
     phase |-> "idle",
     pending |-> {},
     round_start |-> agents,
     turn_inputs |-> [i \in 1..Len(agents) |-> None],
     log |-> MonthLog(Len(agents))]

\* TimeManager.set_rounds_per_month: ValueError unless rounds > 0
set_rounds_per_month(w, rounds) ==
    IF rounds > 0
    THEN [raised |-> FALSE, sim |-> [w EXCEPT !.max_rounds_per_month = rounds]]
    ELSE [raised |-> TRUE, sim |-> w]

\* SimulationTime.advance
advance(w) ==
    IF w.month + 1 > 12
    THEN [w EXCEPT !.month = 1, !.year = @ + 1]
    ELSE [w EXCEPT !.month = @ + 1]

\* the agents that pay and that cannot pay in _process_rent_payments
pays_rent(a) == ~IsNone(a.home) /\ a.wealth >= Get(a.home).monthly_rent
is_evicted(a) == ~IsNone(a.home) /\ a.wealth < Get(a.home).monthly_rent

\* TimeManager._process_rent_payments over all agents, with the statistics
_process_rent_payments_all(w) ==
    LET n == Len(w.agents)
        rents == [i \in 1..n |-> IF pays_rent(w.agents[i])
                                 THEN Get(w.agents[i].home).monthly_rent
                                 ELSE 0]
        evictions == [i \in 1..n |-> IF is_evicted(w.agents[i]) THEN 1 ELSE 0]
    IN  [w EXCEPT
           !.agents = [i \in 1..n |-> _process_rent_payments(w.agents[i])],
           !.current_month_stats.total_rent_collected = @ + SeqTotal(rents),
           !.current_month_stats.agents_evicted = @ + SeqTotal(evictions),
           !.log.rent_deductions =
               [i \in 1..n |-> IF pays_rent(w.agents[i]) THEN @[i] + 1
                               ELSE @[i]]]

\* TimeManager._process_salary_payments over all agents, with the statistics
_process_salary_payments_all(w) ==
    LET n == Len(w.agents)
        employed(i) == ~IsNone(w.agents[i].employment)
        salaries ==
            [i \in 1..n |->
                IF employed(i)
                THEN (Get(w.agents[i].employment).base_salary
                      * Get(w.agents[i].employment).performance_history
                           .average_performance) \div 100
                ELSE 0]
        losses ==
            [i \in 1..n |->
                IF employed(i)
                   /\ Get(w.agents[i].employment).performance_history
                         .warnings_received >= 3
                THEN 1 ELSE 0]
    IN  [w EXCEPT
           !.agents = [i \in 1..n |-> _process_salary_payments(w.agents[i])],
           !.current_month_stats.total_salaries_paid = @ + SeqTotal(salaries),
           !.current_month_stats.agents_lost_jobs = @ + SeqTotal(losses),
           !.log.salary_payments =
               [i \in 1..n |-> IF employed(i) THEN @[i] + 1 ELSE @[i]]]

\* TimeManager._process_event (no handler is registered for these events)
_process_event(w, event) ==
    LET w1 == CASE event.event_type = "RENT_DUE" ->
                       _process_rent_payments_all(w)
                [] event.event_type = "SALARY_PAYMENT" ->
                       _process_salary_payments_all(w)
                [] OTHER -> w
    IN  [w1 EXCEPT !.log.events_processed = @ + 1]

RECURSIVE process_events(_, _)
process_events(w, events) ==
    IF events = <<>> THEN w
    ELSE process_events(_process_event(w, Head(events)), Tail(events))

\* TimeManager._process_scheduled_events: the events of the current round
\* are taken off the list and processed in their order
_process_scheduled_events(w) ==
    LET due(event) == event.target_round = w.current_round
        events_to_process == SelectSeq(w.scheduled_events, due)
        remaining(event) == ~due(event)
        remaining_events == SelectSeq(w.scheduled_events, remaining)
    IN  process_events([w EXCEPT !.scheduled_events = remaining_events],
                       events_to_process)

\* TimeManager._schedule_monthly_events
_schedule_monthly_events(w) ==
    LET mid_month_round == w.max_rounds_per_month \div 2
        s1 == IF w.current_round < mid_month_round
              THEN Append(w.scheduled_events,
                          ScheduledEvent("RENT_DUE", mid_month_round))
              ELSE w.scheduled_events
    IN  [w EXCEPT !.scheduled_events =
            Append(s1, ScheduledEvent("SALARY_PAYMENT",
                                      w.max_rounds_per_month - 1))]

\* ActionBudget.reset
reset(a) == [a EXCEPT !.spent_hours = 0]

\* TimeManager.start_new_month (the MONTH_START handler of the Simulation
\* updates the economy, which is not part of the model)
start_new_month(w) ==
    LET n == Len(w.agents)
        w1 == [w EXCEPT
                 !.current_round = 0,
                 !.agents = [i \in 1..n |->
                                update_internal_states(reset(w.agents[i]))],
                 !.log = MonthLog(n)]
    IN  _schedule_monthly_events(w1)

\* TimeManager._process_monthly_payments
_process_monthly_payments(w) ==
    _process_salary_payments_all(_process_rent_payments_all(w))

\* mutant: the month's statistics are not saved
_end_current_month_unsaved(w) ==
    LET w1 == advance(_process_monthly_payments(w))
    IN  [w1 EXCEPT !.current_month_stats = MonthlyStats(w1.month, w1.year),
                   !.log.month_ends = @ + 1]

\* TimeManager._end_current_month
_end_current_month(w) ==
    LET w1 == _process_monthly_payments(w)
        w2 == [w1 EXCEPT !.monthly_stats = Append(@, w1.current_month_stats)]
        w3 == advance(w2)
    IN  [w3 EXCEPT !.current_month_stats = MonthlyStats(w3.month, w3.year),
                   !.log.month_ends = @ + 1]

\* TimeManager.advance_action_round: the Simulation and the returned value
advance_action_round(w) ==
    LET w1 == [w EXCEPT !.current_round = @ + 1, !.log.advances = @ + 1]
        w2 == _process_scheduled_events(w1)
    IN  IF w2.current_round >= w2.max_rounds_per_month
        THEN [sim |-> _end_current_month(w2), continues |-> FALSE]
        ELSE [sim |-> w2, continues |-> TRUE]

\* TimeManager.record_action_outcome
record_action_outcome(w) ==
    [w EXCEPT !.current_month_stats.total_actions = @ + 1]

\* mutant: the gambling context is one object shared by all agents
agent_turn_shared_context(agents, i, a) ==
    [j \in 1..Len(agents) |->
        IF j = i THEN a
        ELSE [agents[j] EXCEPT !.gambling_context = a.gambling_context]]

\* the agents of the Simulation after a turn of agent i that left it as a:
\* the objects of an agent (Agent.__init__) are its own
agent_turn(agents, i, a) ==
    [agents EXCEPT ![i] = a]

\* the inputs of a turn
TurnInputs(cues, travel_time, selected_idx, r, numpy) ==
    [cues |-> cues, travel_time |-> travel_time,
     selected_idx |-> selected_idx, r |-> r, numpy |-> numpy]

\* the loop over agent_order goes on to the next agent or has finished
next_agent(w) ==
    [w EXCEPT !.phase = IF w.pending = {} THEN "round" ELSE "turns"]

\* Simulation._process_agent_turn with the turn t of agent i, as the
\* Simulation sees it
turn_taken(w, i, in, t) ==
    next_agent(
        IF t.decided /\ ~t.caught
        THEN record_action_outcome(
                 [w EXCEPT !.agents = agent_turn(w.agents, i, t.agent),
                           !.pending = @ \ {i},
                           !.turn_inputs[i] = Some(in),
                           !.log.turns[i] = @ + 1,
                           !.log.turn_rounds[i] = Append(@, w.current_round)])
        ELSE [w EXCEPT !.agents = agent_turn(w.agents, i, t.agent),
                       !.pending = @ \ {i},
                       !.turn_inputs[i] = Some(in),
                       !.log.turns[i] = @ + 1,
                       !.log.turn_rounds[i] = Append(@, w.current_round)])

\* Simulation._run_action_round, the body of the loop over agent_order for
\* agent i
run_agent_turn(w, i, in) ==
    turn_taken(w, i, in,
               _process_agent_turn(w.agents[i], in.cues, in.travel_time,
                                   in.selected_idx, in.r, in.numpy))

\* Simulation._run_action_round after advance_action_round returned r
round_advanced(r) ==
    IF ~r.continues
    THEN [sim |-> [r.sim EXCEPT !.phase = "idle",
                                !.months_completed = @ + 1],
          continues |-> FALSE]
    ELSE [sim |-> [r.sim EXCEPT
                     !.phase = "turns",
                     !.pending = 1..Len(r.sim.agents),
                     !.round_start = r.sim.agents,
                     !.turn_inputs = [i \in 1..Len(r.sim.agents) |-> None]],
          continues |-> TRUE]

\* Simulation._run_action_round up to the loop over the agents
run_action_round(w) ==
    round_advanced(advance_action_round(w))

----------------------------------------------------------------------------
(* Operations on the agent *)

\* one call of Agent.execute_action
Execute(action, context, r, numpy) ==
    LET res == execute_action(agent, action, context, r, numpy)
    IN  /\ agent' = res.agent
        /\ pre' = agent
        /\ last' = [op |-> "execute_action", action |-> Some(action),
                    context |-> Some(context), draws |-> Some(r),
                    outcome |-> Some(res.outcome), raised |-> res.raised,
                    random_calls |-> random_draws(agent, action, context, r)]
        /\ steps' = steps + 1
        /\ UNCHANGED sim

\* one call of ActionOutcomeGenerator.generate_outcome
Generate(action, context, r) ==
    LET g == generate_outcome(agent, action, context, r)
    IN  /\ agent' = g.agent
        /\ pre' = agent
        /\ last' = [op |-> "generate_outcome", action |-> Some(action),
                    context |-> Some(context), draws |-> Some(r),
                    outcome |-> Some(g.outcome), raised |-> FALSE,
                    random_calls |-> random_draws(agent, action, context, r)]
        /\ steps' = steps + 1
        /\ UNCHANGED sim

\* one call of StateUpdater.apply_outcome
Apply(op, o, numpy) ==
    LET u == apply_outcome(agent, o, numpy)
    IN  /\ agent' = u.agent
        /\ pre' = agent
        /\ last' = [op |-> op, action |-> None, context |-> None,
                    draws |-> None, outcome |-> Some(o),
                    raised |-> u.raised, random_calls |-> 0]
        /\ steps' = steps + 1
        /\ UNCHANGED sim

\* two calls of StateUpdater.apply_outcome with the same outcome object; the
\* second call is made only if the first returns
ApplyTwice(o, numpy) ==
    LET u1 == apply_outcome(agent, o, numpy)
        u2 == IF u1.raised THEN u1 ELSE apply_outcome(u1.agent, o, numpy)
    IN  /\ agent' = u2.agent
        /\ pre' = agent
        /\ last' = [op |-> "apply_outcome_twice", action |-> None,
                    context |-> None, draws |-> None, outcome |-> Some(o),
                    raised |-> u2.raised, random_calls |-> 0]
        /\ steps' = steps + 1
        /\ UNCHANGED sim

\* any other operation on the agent, leaving it as a
Other(op, a) ==
    /\ agent' = a
    /\ pre' = agent
    /\ last' = [op |-> op, action |-> None, context |-> None,
                draws |-> None, outcome |-> None, raised |-> FALSE,
                random_calls |-> 0]
    /\ steps' = steps + 1
    /\ UNCHANGED sim

\* The calls of each action type: <<action, context, draws>>
WorkTrials ==
    {<<Action("WORK", 40, None, NoParams), DefaultContext,
       Draw(0, 0, z, w, 0)>> : z \in ZScores, w \in ZScores}
GambleTrials ==
    {<<Action("GAMBLE", 4, Some("casino"), BetParams(b)), DefaultContext,
       Draw(u, 50, z, 0, 0)>> : b \in Bets, u \in Rolls, z \in ZScores}
DrinkTrials ==
    {<<Action("DRINK", 2, None, UnitParams(n)), c,
       Draw(0, 50, z, z, 0)>> : n \in Units, c \in Contexts, z \in ZScores}
BegTrials ==
    {<<Action("BEG", 8, None, NoParams), c, Draw(0, 0, 3, 0, e)>> :
        c \in Contexts, e \in ExpMultipliers}
FindJobTrials ==
    {<<Action("FIND_JOB", 20, None, NoParams), DefaultContext,
       Draw(u, v, 0, 0, 0)>> : u \in SearchRolls, v \in Fractions}
FindHousingTrials ==
    {<<Action("FIND_HOUSING", 10, None, NoParams), DefaultContext,
       Draw(u, v, 0, 0, 0)>> : u \in SearchRolls, v \in Fractions}
MoveTrials ==
    {<<Action("MOVE_HOME", 20, Some("newhome"), NoParams), DefaultContext,
       Draw(u, 0, z, 0, 0)>> : u \in Fractions, z \in ZScores}
RestTrials ==
    {<<Action("REST", 4, None, NoParams), c, Draw(0, 0, z, z, 0)>> :
        c \in Contexts, z \in ZScores}

Trials ==
    WorkTrials \cup GambleTrials \cup DrinkTrials \cup BegTrials
    \cup FindJobTrials \cup FindHousingTrials \cup MoveTrials \cup RestTrials

----------------------------------------------------------------------------
(* Spec: the life of one agent: execute_action calls interleaved with the   *)
(* month's update and the TimeManager's rent and salary processing.         *)

ExecWork ==
    /\ steps < MaxSteps
    /\ \E t \in WorkTrials : Execute(t[1], t[2], t[3], FALSE)

ExecGamble ==
    /\ steps < MaxSteps
    /\ \E t \in GambleTrials, numpy \in BOOLEAN :
           Execute(t[1], t[2], t[3], numpy)

ExecDrink ==
    /\ steps < MaxSteps
    /\ \E t \in DrinkTrials : Execute(t[1], t[2], t[3], FALSE)

ExecBeg ==
    /\ steps < MaxSteps
    /\ \E t \in BegTrials : Execute(t[1], t[2], t[3], FALSE)

ExecFindJob ==
    /\ steps < MaxSteps
    /\ \E t \in FindJobTrials : Execute(t[1], t[2], t[3], FALSE)

ExecFindHousing ==
    /\ steps < MaxSteps
    /\ \E t \in FindHousingTrials : Execute(t[1], t[2], t[3], FALSE)

ExecMove ==
    /\ steps < MaxSteps
    /\ \E t \in MoveTrials : Execute(t[1], t[2], t[3], FALSE)

ExecRest ==
    /\ steps < MaxSteps
    /\ \E t \in RestTrials : Execute(t[1], t[2], t[3], FALSE)

\* TimeManager.start_new_month's agent.update_internal_states(delta_time=1)
MonthlyUpdate ==
    /\ steps < MaxSteps
    /\ Other("update_internal_states", update_internal_states(agent))

\* TimeManager._process_rent_payments (RENT_DUE, and again at month end)
RentDue ==
    /\ steps < MaxSteps
    /\ Other("rent", _process_rent_payments(agent))

\* TimeManager._process_salary_payments
SalaryPayment ==
    /\ steps < MaxSteps
    /\ Other("salary", _process_salary_payments(agent))

Next ==
    \/ ExecWork
    \/ ExecGamble
    \/ ExecDrink
    \/ ExecBeg
    \/ ExecFindJob
    \/ ExecFindHousing
    \/ ExecMove
    \/ ExecRest
    \/ MonthlyUpdate
    \/ RentDue
    \/ SalaryPayment

Spec == Init /\ [][Next]_vars

----------------------------------------------------------------------------
(* SpecPipeline: the outcome pipeline called directly, as the tests do: one *)
(* generate_outcome call and the application of its outcome, or the         *)
(* application of an outcome the caller built.                              *)

\* wealth values around the prices the generators compare with (cents)
PipelineWealths == {0, 799, 2000, 5000, 100000}

\* a losing gamble through the generator alone
LosingGamble(a) ==
    _generate_gambling_outcome(a, Action("GAMBLE", 4, None, NoParams),
                               DefaultContext, Draw(80, 0, 0, 0, 0)).agent

PipelineAgents ==
    {[a EXCEPT !.wealth = w] : a \in InitAgents, w \in PipelineWealths}
    \cup {LosingGamble(LosingGamble(LosingGamble(NewAgent(w, None)))) :
            w \in PipelineWealths}

\* outcomes built by a caller: a failed one of every variant with its
\* numeric fields set, and successful ones as in the tests
FailedOutcomes ==
    {WorkOutcome(FALSE, 30000, 40, 10),
     GamblingOutcome(FALSE, -5000, FALSE, -20),
     DrinkingOutcome(FALSE, 1600, 2, 30, 20),
     BeggingOutcome(FALSE, 1000, 10, 50),
     JobSearchOutcome(FALSE, TRUE, 70, -20),
     HousingSearchOutcome(FALSE, TRUE, 50, 50000),
     MoveOutcome(FALSE, 20000, 10, Some("newhome")),
     RestOutcome(FALSE, 20, 10, 30),
     ActionOutcome(FALSE)}
SuccessfulOutcomes ==
    {WorkOutcome(TRUE, 30000, 40, 10),
     WorkOutcome(TRUE, 50000, 100, 5),
     GamblingOutcome(TRUE, 5000, FALSE, 0),
     GamblingOutcome(TRUE, -3000, FALSE, 0),
     GamblingOutcome(TRUE, -5000, FALSE, -20),
     DrinkingOutcome(TRUE, 1600, 2, 30, 20),
     BeggingOutcome(TRUE, 1000, 10, 50),
     JobSearchOutcome(TRUE, TRUE, 70, -20),
     HousingSearchOutcome(TRUE, TRUE, 50, 50000),
     MoveOutcome(TRUE, 20000, 10, Some("newhome")),
     RestOutcome(TRUE, 20, 10, 30)}
GivenOutcomes == FailedOutcomes \cup SuccessfulOutcomes

InitPipeline ==
    /\ agent \in PipelineAgents
    /\ pre = agent
    /\ last = NoOp
    /\ steps = 0
    /\ sim = NoSimulation

PGenerate ==
    /\ last.op = "init"
    /\ \E t \in Trials : Generate(t[1], t[2], t[3])

PApplyGenerated ==
    /\ last.op = "generate_outcome"
    /\ \E numpy \in BOOLEAN :
           Apply("apply_generated", Get(last.outcome), numpy)

PApplyGiven ==
    /\ last.op = "init"
    /\ \E o \in GivenOutcomes, numpy \in BOOLEAN :
           Apply("apply_outcome", o, numpy)

PApplyTwice ==
    /\ last.op = "init"
    /\ \E o \in SuccessfulOutcomes : ApplyTwice(o, FALSE)

NextPipeline ==
    \/ PGenerate
    \/ PApplyGenerated
    \/ PApplyGiven
    \/ PApplyTwice

SpecPipeline == InitPipeline /\ [][NextPipeline]_vars

----------------------------------------------------------------------------
(* SpecGamble: a run of GAMBLE actions of a new agent, through              *)
(* execute_action or through the generator alone.                           *)

\* initial wealth (cents)
GambleWealths == {5000, 100000}

GambleChainTrials ==
    {<<Action("GAMBLE", 4, None, BetParams(b)), DefaultContext,
       Draw(u, 50, 0, 0, 0)>> : b \in Bets, u \in {20, 80}}

\* the agent after n more GAMBLE actions with the default bet, all won
RECURSIVE GambleRun(_, _)
GambleRun(a, n) ==
    IF n = 0 THEN a
    ELSE GambleRun(execute_action(a, Action("GAMBLE", 4, None, NoParams),
                                  DefaultContext, Draw(20, 50, 0, 0, 0),
                                  TRUE).agent,
                   n - 1)

\* gambles already played by the seasoned gambler: one short of the 10
\* outcomes the context keeps
SeasonedGames == 9
SeasonedGambler == GambleRun(NewAgent(100000, None), SeasonedGames)

InitGamble ==
    /\ agent \in {NewAgent(w, None) : w \in GambleWealths}
                  \cup {SeasonedGambler}
    /\ pre = agent
    /\ last = NoOp
    /\ steps = 0
    /\ sim = NoSimulation

GExecute ==
    /\ steps < MaxGambles
    /\ \E t \in GambleChainTrials, numpy \in BOOLEAN :
           Execute(t[1], t[2], t[3], numpy)

GGenerate ==
    /\ steps < MaxGambles
    /\ \E t \in GambleChainTrials : Generate(t[1], t[2], t[3])

NextGamble ==
    \/ GExecute
    \/ GGenerate

SpecGamble == InitGamble /\ [][NextGamble]_vars

----------------------------------------------------------------------------
(* SpecWork: WorkOutcomes applied to an employed agent, built by the caller *)
(* or generated by execute_action.                                          *)

MaxWorks == 3

\* the agent after n successful WorkOutcomes with performances 0.61, 0.62, ...
RECURSIVE WorkRun(_, _)
WorkRun(a, n) ==
    IF n = 0 THEN a
    ELSE apply_outcome(WorkRun(a, n - 1),
                       WorkOutcome(TRUE, 30000, 60 + n, 5), TRUE).agent

\* months already worked by the long-serving employee: one short of the 12
\* scores the history keeps
ServedMonths == 11
LongServingEmployee == WorkRun(EmployedAgent, ServedMonths)

\* performance scores of the outcomes a caller builds: below, at and above
\* the warning threshold 0.5
GivenPerformances == {40, 50, 100}

InitWork ==
    /\ agent \in {EmployedAgent, LongServingEmployee}
    /\ pre = agent
    /\ last = NoOp
    /\ steps = 0
    /\ sim = NoSimulation

WApply ==
    /\ steps < MaxWorks
    /\ \E p \in GivenPerformances :
           Apply("apply_outcome", WorkOutcome(TRUE, 30000, p, 5), TRUE)

WExecute ==
    /\ steps < MaxWorks
    /\ \E t \in WorkTrials : Execute(t[1], t[2], t[3], TRUE)

NextWork ==
    \/ WApply
    \/ WExecute

SpecWork == InitWork /\ [][NextWork]_vars

----------------------------------------------------------------------------
(* SpecCues: the monthly update_internal_states and the cues of the turns   *)
(* between two updates.                                                     *)

MaxCueSteps == 4

\* the cue lists of a turn: none, one cue of each kind at both ends of the
\* intensity range, and a location with several cues
CueLists ==
    {<<>>,
     <<AlcoholCue(100)>>, <<AlcoholCue(0)>>,
     <<GamblingCue(100)>>, <<GamblingCue(0)>>,
     <<FinancialStressCue(100)>>, <<FinancialStressCue(0)>>,
     <<AlcoholCue(100), GamblingCue(100), FinancialStressCue(50)>>,
     <<GamblingCue(100), GamblingCue(100), GamblingCue(100)>>}

InitCues ==
    /\ agent \in InitAgents
    /\ pre = agent
    /\ last = NoOp
    /\ steps = 0
    /\ sim = NoSimulation

CUpdate ==
    /\ steps < MaxCueSteps
    /\ Other("update_internal_states", update_internal_states(agent))

CProcessCues ==
    /\ steps < MaxCueSteps
    /\ \E cues \in CueLists :
           Other("process_environmental_cues",
                 process_environmental_cues(agent, cues))

NextCues ==
    \/ CUpdate
    \/ CProcessCues

SpecCues == InitCues /\ [][NextCues]_vars

----------------------------------------------------------------------------
(* SpecTurn: the turns of an agent in the action rounds of a month, and     *)
(* direct calls of the decision maker.                                      *)

MaxTurns == 2

\* hours already spent this month: none, and 10, 3 and 1 hours left
SpentHours == {0, 270, 277, 279}

\* the cues of a turn
TurnCues == {<<>>, <<GamblingCue(100), FinancialStressCue(100)>>}

\* hours of travel to the buildings of the city
TravelTimes == {0, 3}

\* the random draws of the outcome of a turn
TurnDraws == {Draw(20, 50, 0, 0, 0), Draw(80, 50, 0, 0, 0)}

\* positions np.random.choice can select in a list
Selectable(available_actions) ==
    IF available_actions = <<>> THEN {1} ELSE 1..Len(available_actions)

InitTurn ==
    /\ agent \in {[a EXCEPT !.spent_hours = h] :
                      a \in InitAgents, h \in SpentHours}
    /\ pre = agent
    /\ last = NoOp
    /\ steps = 0
    /\ sim = NoSimulation

\* one call of Agent.make_decision, and through it of
\* DecisionMaker.choose_action
Choose(available_actions, selected_idx) ==
    LET d == make_decision(agent, available_actions, selected_idx)
    IN  /\ agent' = agent
        /\ pre' = agent
        /\ last' = [op |-> "make_decision", offered |-> available_actions,
                    action |-> d.action, context |-> None, draws |-> None,
                    outcome |-> None, raised |-> d.raised,
                    evaluated |-> d.evaluated,
                    random_calls |-> d.random_calls]
        /\ steps' = steps + 1
        /\ UNCHANGED sim

\* one call of Simulation._process_agent_turn
Turn(cues, travel_time, selected_idx, r, numpy) ==
    LET t == _process_agent_turn(agent, cues, travel_time, selected_idx, r,
                                 numpy)
    IN  /\ agent' = t.agent
        /\ pre' = agent
        /\ last' = [op |-> "process_agent_turn", listed |-> t.listed,
                    offered |-> t.offered,
                    cues |-> cues, decided |-> t.decided,
                    action |-> t.action, context |-> None,
                    draws |-> Some(r), outcome |-> t.outcome,
                    raised |-> FALSE, caught |-> t.caught,
                    random_calls |-> 0]
        /\ steps' = steps + 1
        /\ UNCHANGED sim

TChoose ==
    /\ steps < MaxTurns
    /\ \E available_actions \in {<<>>, generate_available_actions(agent)} :
           \E selected_idx \in Selectable(available_actions) :
               Choose(available_actions, selected_idx)

TTurn ==
    /\ steps < MaxTurns
    /\ \E cues \in TurnCues, travel_time \in TravelTimes, r \in TurnDraws,
          numpy \in BOOLEAN :
           \E selected_idx \in Selectable(generate_available_actions_moving(
                                   process_environmental_cues(agent, cues),
                                   travel_time).actions) :
               Turn(cues, travel_time, selected_idx, r, numpy)

NextTurn ==
    \/ TChoose
    \/ TTurn

SpecTurn == InitTurn /\ [][NextTurn]_vars

----------------------------------------------------------------------------
(* SpecDecide: the decision maker on agents in every combination of the     *)
(* weight triggers: state-dependent weights, action probabilities and the   *)
(* selection.                                                               *)

MaxDecisions == 2

\* softmax temperatures (the default 0.1, and 1.0)
Temperatures == {10, 100}

\* combined utilities of the candidates, by position in the list
UtilityProfiles == {"equal", "rising", "falling", "mixed", "positive"}
UtilityAt(profile, i) ==
    CASE profile = "equal"    -> 0
      [] profile = "rising"   -> 15 * i
      [] profile = "falling"  -> -(400 * i)
      [] profile = "mixed"    -> IF i % 2 = 1 THEN 250 ELSE -250
      [] profile = "positive" -> 1000 + i
Utilities(available_actions, profile) ==
    [i \in 1..Len(available_actions) |-> UtilityAt(profile, i)]

DecideAgents ==
    {[a EXCEPT !.craving_alcohol = c, !.stress = s, !.spent_hours = h] :
        a \in InitAgents, c \in {0, 60}, s \in {0, 80}, h \in {0, 276, 277}}

InitDecide ==
    /\ agent \in DecideAgents
    /\ pre = agent
    /\ last = NoOp
    /\ steps = 0
    /\ sim = NoSimulation

\* one call of _calculate_state_dependent_weights
DWeights ==
    /\ steps < MaxDecisions
    /\ agent' = agent
    /\ pre' = agent
    /\ last' = [op |-> "weights",
                weights |-> _calculate_state_dependent_weights(agent)]
    /\ steps' = steps + 1
    /\ UNCHANGED sim

\* one call of get_action_probabilities on a non-empty list
DProbabilities ==
    /\ steps < MaxDecisions
    /\ generate_available_actions(agent) # <<>>
    /\ \E profile \in UtilityProfiles, temperature \in Temperatures :
          LET available_actions == generate_available_actions(agent)
              utilities == Utilities(available_actions, profile)
              sm == softmax(utilities, temperature)
          IN  /\ agent' = agent
              /\ pre' = agent
              /\ last' = [op |-> "get_action_probabilities",
                          offered |-> available_actions,
                          utilities |-> utilities,
                          nan |-> sm.nan,
                          probabilities |-> sm.probabilities]
              /\ steps' = steps + 1
              /\ UNCHANGED sim

\* one call of choose_action: the evaluations, the probabilities and the
\* position drawn by np.random.choice, which raises on probabilities that
\* are not a distribution
DChoose ==
    /\ steps < MaxDecisions
    /\ generate_available_actions(agent) # <<>>
    /\ \E profile \in UtilityProfiles, temperature \in Temperatures :
          LET available_actions == generate_available_actions(agent)
              sm == softmax(Utilities(available_actions, profile),
                            temperature)
              support == choice_support(sm.probabilities)
          IN  \E selected_idx \in IF sm.nan \/ support = {} THEN {1}
                                  ELSE support :
                  LET d == choose_action(agent, available_actions,
                                         selected_idx)
                  IN  /\ agent' = agent
                      /\ pre' = agent
                      /\ last' = [op |-> "choose_action",
                                  offered |-> available_actions,
                                  nan |-> sm.nan,
                                  probabilities |-> sm.probabilities,
                                  raised |-> d.raised \/ sm.nan,
                                  action |-> IF sm.nan THEN None
                                             ELSE d.action]
                      /\ steps' = steps + 1
                      /\ UNCHANGED sim

\* the cues of a turn, which raise cravings and stress
DCues ==
    /\ steps < MaxDecisions
    /\ \E cues \in TurnCues \ {<<>>} :
          Other("process_environmental_cues",
                process_environmental_cues(agent, cues))

NextDecide ==
    \/ DWeights
    \/ DProbabilities
    \/ DChoose
    \/ DCues

SpecDecide == InitDecide /\ [][NextDecide]_vars

----------------------------------------------------------------------------
(* SpecAddiction: successful drinking outcomes and monthly updates in any   *)
(* order, and direct calls of update_addiction_stock.                       *)

MaxAddictionSteps == 4

\* addiction stocks in [0, max_stock] and consumptions >= 0, in hundredths
Stocks == {0, 1, 30, 50, 99, 100}
Consumptions == {0, 20, 100, 1000, 5000}

\* units of successful drinking outcomes
UnitsConsumed == {0, 2, 10, 100}

AddictionAgents ==
    {[a EXCEPT !.stock = s, !.tolerance_level = s,
               !.time_since_last_use = t] :
        a \in {FreshAgent, DistressedAgent}, s \in {0, 50, 100},
        t \in {0, 7, 30}}

InitAddiction ==
    /\ agent \in AddictionAgents
    /\ pre = agent
    /\ last = NoOp
    /\ steps = 0
    /\ sim = NoSimulation

\* one call of AddictionModule.update_addiction_stock
AStock ==
    /\ steps < MaxAddictionSteps
    /\ \E current_stock \in Stocks, consumption \in Consumptions :
          /\ agent' = agent
          /\ pre' = agent
          /\ last' = [op |-> "update_addiction_stock",
                      current_stock |-> current_stock,
                      consumption |-> consumption,
                      result |-> update_addiction_stock(current_stock,
                                                        consumption)]
          /\ steps' = steps + 1
          /\ UNCHANGED sim

\* a successful drinking outcome is applied
ADrink ==
    /\ steps < MaxAddictionSteps
    /\ \E units \in UnitsConsumed :
          Apply("apply_outcome",
                DrinkingOutcome(TRUE, 800 * units, units, 30, 20), TRUE)

\* the monthly update
AUpdate ==
    /\ steps < MaxAddictionSteps
    /\ Other("update_internal_states", update_internal_states(agent))

NextAddiction ==
    \/ AStock
    \/ ADrink
    \/ AUpdate

SpecAddiction == InitAddiction /\ [][NextAddiction]_vars

----------------------------------------------------------------------------
(* SpecMonth: a TimeManager driven through whole months: start_new_month,   *)
(* then advance_action_round until it returns False; the number of rounds   *)
(* is set between months.                                                   *)

MaxMonthSteps == 14

\* rounds per month: the smallest, small ones, and the default 10
RoundsPerMonth == {1, 2, 3, 4, 10}

\* an agent with a home in the city and a job, rich enough for two rents
Tenant ==
    [NewAgent(200000, Some("home")) EXCEPT
       !.employment = Some(EmploymentInfo(70, 200000)),
       !.home = Some([HousingInfo(50, 80000) EXCEPT !.plot_id = "home"])]
\* an employee with three warnings
WarnedEmployee ==
    [BrokeAgent EXCEPT
       !.employment = Some([EmploymentInfo(50, 150000) EXCEPT
                              !.performance_history.warnings_received = 3])]

\* the agents of a simulation
Populations ==
    {<<Tenant, DistressedAgent>>, <<EmployedAgent, FreshAgent>>,
     <<BrokeAgent, Tenant>>, <<WarnedEmployee, EmployedAgent>>}

\* a TimeManager in its first month, and in the December of its first year
InitMonth ==
    /\ agent = FreshAgent
    /\ pre = agent
    /\ last = NoOp
    /\ steps = 0
    /\ \E agents \in Populations, rounds \in RoundsPerMonth, m \in {1, 12} :
          sim = [Simulation(agents, rounds) EXCEPT
                   !.month = m, !.current_month_stats = MonthlyStats(m, 1)]

\* a step of the TimeManager: the operation, the Simulation it leaves, and
\* what it returned
TimeStep(op, w, returned) ==
    /\ sim' = w
    /\ last' = [op |-> op, before |-> sim, returned |-> returned]
    /\ steps' = steps + 1
    /\ UNCHANGED <<agent, pre>>

MSetRounds ==
    /\ steps < MaxMonthSteps
    /\ sim.phase = "idle"
    /\ \E rounds \in RoundsPerMonth \cup {0} :
          TimeStep("set_rounds_per_month",
                   set_rounds_per_month(sim, rounds).sim,
                   ~set_rounds_per_month(sim, rounds).raised)

MStartNewMonth ==
    /\ steps < MaxMonthSteps
    /\ sim.phase = "idle"
    /\ LET w == start_new_month(sim)
       IN  TimeStep("start_new_month",
                    [w EXCEPT !.phase = "month", !.round_start = w.agents],
                    TRUE)

MAdvance ==
    /\ steps < MaxMonthSteps
    /\ sim.phase = "month"
    /\ LET r == advance_action_round(sim)
       IN  TimeStep("advance_action_round",
                    IF r.continues THEN r.sim
                    ELSE [r.sim EXCEPT !.phase = "idle",
                                       !.months_completed = @ + 1],
                    r.continues)

NextMonth ==
    \/ MSetRounds
    \/ MStartNewMonth
    \/ MAdvance

SpecMonth == InitMonth /\ [][NextMonth]_vars

----------------------------------------------------------------------------
(* SpecRent: direct calls of the payment methods of the TimeManager, as the *)
(* tests make them.                                                         *)

MaxPayments == 3

\* the agents of the TimeManager: every pair of these
RentAgents ==
    {Tenant, EmployedAgent, DistressedAgent, FreshAgent, BrokeAgent,
     WarnedEmployee}

InitRent ==
    /\ agent = FreshAgent
    /\ pre = agent
    /\ last = NoOp
    /\ steps = 0
    /\ \E a \in RentAgents, b \in RentAgents : sim = Simulation(<<a, b>>, 10)

RRent ==
    /\ steps < MaxPayments
    /\ TimeStep("process_rent_payments", _process_rent_payments_all(sim),
                TRUE)

RSalary ==
    /\ steps < MaxPayments
    /\ TimeStep("process_salary_payments", _process_salary_payments_all(sim),
                TRUE)

NextRent ==
    \/ RRent
    \/ RSalary

SpecRent == InitRent /\ [][NextRent]_vars

----------------------------------------------------------------------------
(* SpecSimulation: Simulation.run with two agents: months of action rounds, *)
(* the agents of a round taking their turns in any order.                   *)

MaxSimSteps == 9
\* SimulationConfig.max_months
MaxSimMonths == 2

\* rounds per month of the configuration
SimRounds == {1, 2, 3}

\* the draws of an outcome in the simulation
SimDraws == {Draw(80, 50, 0, 0, 0)}

InitSimulation ==
    /\ agent = FreshAgent
    /\ pre = agent
    /\ last = NoOp
    /\ steps = 0
    /\ \E agents \in Populations, rounds \in SimRounds :
          sim = [Simulation(agents, rounds) EXCEPT !.is_running = TRUE]

\* Simulation._run_single_month: start_new_month
SStartMonth ==
    /\ steps < MaxSimSteps
    /\ sim.is_running
    /\ sim.phase = "idle"
    /\ sim.months_completed < MaxSimMonths
    /\ TimeStep("start_new_month",
                [start_new_month(sim) EXCEPT !.phase = "round"], TRUE)

\* Simulation._run_action_round: advance_action_round
SAdvance ==
    /\ steps < MaxSimSteps
    /\ sim.phase = "round"
    /\ \E r \in {run_action_round(sim)} :
          TimeStep("advance_action_round", r.sim, r.continues)

\* Simulation._process_agent_turn for the next agent of the shuffled order
STurn ==
    /\ steps < MaxSimSteps
    /\ sim.phase = "turns"
    /\ \E i \in sim.pending, travel_time \in TravelTimes, r \in SimDraws :
          \E selected_idx \in Selectable(generate_available_actions_moving(
                                  sim.agents[i], travel_time).actions) :
              TimeStep("process_agent_turn",
                       run_agent_turn(sim, i,
                           TurnInputs(<<>>, travel_time, selected_idx, r,
                                      FALSE)),
                       i)

NextSimulation ==
    \/ SStartMonth
    \/ SAdvance
    \/ STurn

SpecSimulation == InitSimulation /\ [][NextSimulation]_vars

----------------------------------------------------------------------------
(* Properties *)

LastOutcome == Get(last.outcome)
LastAction == Get(last.action)
LastContext == Get(last.context)
LastDraws == Get(last.draws)
Applied == last.op \in {"apply_outcome", "apply_generated"}
Generates == last.op \in {"generate_outcome", "execute_action"}
\* the agent with the action history it had before the last operation
SameButHistory(a, b) == [a EXCEPT !.action_history = b.action_history] = b

\* C1: apply_outcome of an outcome with success = false, of any variant,
\* returns normally and leaves every field of the agent as it was.
C1_FailedOutcomeLeavesAgentUnchanged ==
    (Applied /\ ~LastOutcome.success) => (agent = pre /\ ~last.raised)

\* a failed MoveOutcome that carries a cost and a stress change was applied
\* to an agent who could have paid it
C1_Witness ==
    /\ last.op = "apply_outcome"
    /\ LastOutcome = MoveOutcome(FALSE, 20000, 10, Some("newhome"))
    /\ pre.wealth >= 20000
    /\ pre.stress < 90

\* C2: generate_outcome answers every constraint violation (WORK without
\* employment, GAMBLE with a bet_amount above wealth, DRINK with no affordable
\* unit, MOVE_HOME with a cost above wealth) with a failed outcome whose
\* amount is zero, and leaves wealth and the GamblingContext as they were.
C2_ConstraintViolationsFail ==
    last.op = "generate_outcome" =>
        LET t == LastAction.action_type
            o == LastOutcome
            cost_per_unit == (800 * (50 + LastContext.district_wealth)) \div 100
            units == IF IsNone(LastAction.parameters.units) THEN 2
                     ELSE Get(LastAction.parameters.units)
            move_cost == (20000 * Uniform(80, 150, LastDraws.u)) \div 100
            violation ==
                \/ t = "WORK" /\ IsNone(pre.employment)
                \/ /\ t = "GAMBLE"
                   /\ ~IsNone(LastAction.parameters.bet_amount)
                   /\ Get(LastAction.parameters.bet_amount) > pre.wealth
                \/ /\ t = "DRINK"
                   /\ units * cost_per_unit > pre.wealth
                   /\ pre.wealth \div cost_per_unit = 0
                \/ t = "MOVE_HOME" /\ move_cost > pre.wealth
        IN  violation =>
              /\ ~o.success
              /\ t = "WORK" => o.payment = 0
              /\ t = "GAMBLE" => o.monetary_change = 0
              /\ t = "DRINK" => o.cost = 0
              /\ t = "MOVE_HOME" => o.move_cost = 0
              /\ agent.wealth = pre.wealth
              /\ agent.gambling_context = pre.gambling_context

\* C3: an execute_action call whose outcome has success = false leaves the
\* agent as it was, but for the action history.
C3_FailedExecuteLeavesAgentUnchanged ==
    (last.op = "execute_action" /\ ~last.raised /\ ~LastOutcome.success)
        => SameButHistory(agent, pre)

\* C4: wealth is never negative.
C4_WealthNeverNegative == agent.wealth >= 0

\* the rent was due from a housed agent who could not pay it
C4_Witness ==
    /\ last.op = "rent"
    /\ ~IsNone(pre.home)
    /\ pre.wealth < Get(pre.home).monthly_rent
    /\ agent.wealth = pre.wealth

\* C5: applying an outcome the generator produced to an agent whose stress
\* is in [0, 1] leaves stress in [0, 1].
C5_StressStaysInBounds ==
    (last.op = "apply_generated" /\ pre.stress \in 0..100)
        => agent.stress \in 0..100

\* C6: mood stays in [-1, 1] and self-control in [0, 1].
C6_MoodAndSelfControlInBounds ==
    /\ agent.mood \in -100..100
    /\ agent.self_control_resource \in 0..100

\* a rest whose restoration would have taken self-control above 1
C6_Witness ==
    /\ last.op = "execute_action"
    /\ LastOutcome.kind = "Rest"
    /\ pre.self_control_resource + LastOutcome.self_control_restoration > 100
    /\ agent.self_control_resource = 100

\* C7: a GAMBLE action whose bet_amount parameter is above the agent's
\* wealth gets a failed outcome with no monetary change, and wealth and the
\* GamblingContext stay as they were, whatever the loss streak.
C7_BetAboveWealthFails ==
    ( /\ Generates
      /\ LastAction.action_type = "GAMBLE"
      /\ ~IsNone(LastAction.parameters.bet_amount)
      /\ Get(LastAction.parameters.bet_amount) > pre.wealth )
    => /\ ~LastOutcome.success
       /\ LastOutcome.monetary_change = 0
       /\ agent.wealth = pre.wealth
       /\ agent.gambling_context = pre.gambling_context

\* C8: the bet of a successful gamble (the parameter or the default, scaled
\* on a loss streak of 3 or more and capped at wealth) is at most the wealth
\* the agent had, so a loss takes no more than that wealth.
C8_BetNeverExceedsWealth ==
    ( /\ Generates
      /\ LastOutcome.kind = "Gambling"
      /\ LastOutcome.success )
    => /\ chosen_bet(pre, LastAction) <= pre.wealth
       /\ LastOutcome.monetary_change < 0 =>
             /\ -LastOutcome.monetary_change = chosen_bet(pre, LastAction)
             /\ -LastOutcome.monetary_change <= pre.wealth

\* on a loss streak of 3 or more a bet was scaled, capped at wealth and lost
C8_Witness ==
    /\ Generates
    /\ LastOutcome.kind = "Gambling"
    /\ LastOutcome.success
    /\ pre.gambling_context.loss_streak >= 3
    /\ pre.wealth > 0
    /\ -LastOutcome.monetary_change = pre.wealth

\* C9: a successful drinking outcome costs units_consumed * cost_per_unit,
\* which is at most wealth; unaffordable requests are cut to
\* floor(wealth / cost_per_unit) units, and fail with cost 0 when that is 0.
C9_DrinkingAffordable ==
    (last.op = "generate_outcome" /\ LastOutcome.kind = "Drinking") =>
        LET o == LastOutcome
            cost_per_unit == (800 * (50 + LastContext.district_wealth)) \div 100
            requested == IF IsNone(LastAction.parameters.units) THEN 2
                         ELSE Get(LastAction.parameters.units)
            unaffordable == requested * cost_per_unit > pre.wealth
        IN  /\ o.success =>
                /\ o.cost = o.units_consumed * cost_per_unit
                /\ o.units_consumed * cost_per_unit <= pre.wealth
                /\ o.units_consumed =
                       IF unaffordable THEN pre.wealth \div cost_per_unit
                       ELSE requested
            /\ (unaffordable /\ pre.wealth \div cost_per_unit = 0) =>
                   (~o.success /\ o.cost = 0)

\* a request for 3 units was cut to the units the agent could pay
C9_Witness ==
    /\ last.op = "generate_outcome"
    /\ LastOutcome.kind = "Drinking"
    /\ LastOutcome.success
    /\ LastAction.parameters.units = Some(3)
    /\ LastOutcome.units_consumed \in 1..2

\* C10: applying a successful outcome twice applies its effect twice: a
\* WorkOutcome raises wealth by twice its payment and adds two performance
\* entries, a GamblingOutcome raises total_games by 2.
C10_TwiceAppliesTwice ==
    last.op = "apply_outcome_twice" =>
        LET o == LastOutcome
        IN  /\ o.kind = "Work" =>
                /\ agent.wealth = pre.wealth + 2 * o.payment
                /\ ~IsNone(pre.employment) =>
                    LET h0 == Get(pre.employment).performance_history
                        h2 == Get(agent.employment).performance_history
                        n  == Len(h2.recent_performances)
                    IN  /\ n = Min(12, Len(h0.recent_performances) + 2)
                        /\ h2.recent_performances[n] = o.performance
                        /\ h2.recent_performances[n - 1] = o.performance
                        /\ h2.months_employed = h0.months_employed + 2
            /\ o.kind = "Gambling" =>
                agent.gambling_context.total_games =
                    pre.gambling_context.total_games + 2

\* the outcome variant generate_outcome returns for an action type
VariantOf(action_type) ==
    CASE action_type = "WORK" -> "Work"
      [] action_type = "GAMBLE" -> "Gambling"
      [] action_type = "DRINK" -> "Drinking"
      [] action_type = "BEG" -> "Begging"
      [] action_type = "FIND_JOB" -> "JobSearch"
      [] action_type = "FIND_HOUSING" -> "HousingSearch"
      [] action_type = "MOVE_HOME" -> "Move"
      [] action_type = "REST" -> "Rest"
      [] OTHER -> "Action"

\* C11: every execute_action call generates one outcome of the variant of
\* its action type, applies it once and appends one (action, outcome) pair
\* to the action history, newest last; a successful outcome raises
\* spent_hours by exactly the action's time cost.
C11_ExecuteRecordsExactlyOnce ==
    last.op = "execute_action" =>
        /\ LastOutcome.kind = VariantOf(LastAction.action_type)
        /\ agent.action_history =
               history_append(pre.action_history, <<LastAction, LastOutcome>>)
        /\ LastOutcome.success =>
               agent.spent_hours = pre.spent_hours + LastAction.time_cost

\* C12: every successful gambling outcome that takes effect, applied
\* directly or generated and applied by execute_action, raises total_games
\* by one, total_wins by its gain and total_losses by its loss, so the
\* aggregates of a new agent are the count and the sums of its outcomes.
C12_GamblingAggregatesExact ==
    ( /\ last.op \in {"apply_outcome", "execute_action"}
      /\ ~last.raised
      /\ LastOutcome.kind = "Gambling"
      /\ LastOutcome.success )
    => LET mc == LastOutcome.monetary_change
           gc0 == pre.gambling_context
           gc == agent.gambling_context
       IN  /\ gc.total_games = gc0.total_games + 1
           /\ gc.total_wins = gc0.total_wins + (IF mc > 0 THEN mc ELSE 0)
           /\ gc.total_losses = gc0.total_losses + (IF mc < 0 THEN -mc ELSE 0)

\* the last n entries of a sequence
LastN(n, s) == IF Len(s) > n THEN SubSeq(s, Len(s) - n + 1, Len(s)) ELSE s

\* C13: recent_outcomes never holds more than 10 entries; a gamble that is
\* played appends its outcome and keeps the 10 most recent, oldest first; a
\* failed gamble adds no entry.
C13_RecentOutcomesRingBuffer ==
    /\ Len(agent.gambling_context.recent_outcomes) <= 10
    /\ (Generates /\ LastAction.action_type = "GAMBLE") =>
          agent.gambling_context.recent_outcomes =
              IF LastOutcome.success
              THEN LastN(10, Append(pre.gambling_context.recent_outcomes,
                                    LastOutcome))
              ELSE pre.gambling_context.recent_outcomes

\* a gamble was played with 10 outcomes already kept: the oldest was dropped
C13_Witness ==
    /\ Generates
    /\ LastAction.action_type = "GAMBLE"
    /\ LastOutcome.success
    /\ Len(pre.gambling_context.recent_outcomes) = 10
    /\ agent.gambling_context.recent_outcomes[10] = LastOutcome
    /\ agent.gambling_context.recent_outcomes[1] =
           pre.gambling_context.recent_outcomes[2]

\* C14: loss_streak is never negative; a winning gamble sets it to 0, a
\* losing gamble raises it by one, and a failed gamble leaves it as it was,
\* so it counts the losses since the last win.
C14_LossStreakCounter ==
    /\ agent.gambling_context.loss_streak >= 0
    /\ (Generates /\ LastAction.action_type = "GAMBLE") =>
          LET s0 == pre.gambling_context.loss_streak
              s1 == agent.gambling_context.loss_streak
              mc == LastOutcome.monetary_change
          IN  /\ ~LastOutcome.success => s1 = s0
              /\ (LastOutcome.success /\ mc > 0) => s1 = 0
              /\ (LastOutcome.success /\ mc < 0) => s1 = s0 + 1
              /\ (LastOutcome.success /\ mc = 0) => s1 \in {0, s0 + 1}

\* a win after two or more losses in a row set the streak back to 0
C14_Witness ==
    /\ last.op = "execute_action"
    /\ LastAction.action_type = "GAMBLE"
    /\ LastOutcome.success
    /\ LastOutcome.monetary_change > 0
    /\ pre.gambling_context.loss_streak >= 2
    /\ agent.gambling_context.loss_streak = 0

RECURSIVE SeqSum(_)
SeqSum(s) == IF s = <<>> THEN 0 ELSE Head(s) + SeqSum(Tail(s))
\* the mean of a non-empty sequence, in the units of its entries
Mean(s) == SeqSum(s) \div Len(s)

\* C15: each successful WorkOutcome applied to an employed agent appends
\* its performance to recent_performances and keeps the last 12 in order,
\* sets average_performance to the mean of the scores kept, raises
\* warnings_received by one if the performance is below 0.5 and
\* months_employed by one; so after n outcomes the history holds the last
\* min(n, 12) scores.
C15_WorkPerformanceHistory ==
    /\ ~IsNone(agent.employment) =>
          LET h == Get(agent.employment).performance_history
          IN  /\ Len(h.recent_performances) = Min(h.months_employed, 12)
              /\ h.recent_performances # <<>> =>
                     h.average_performance = Mean(h.recent_performances)
    /\ ( /\ last.op \in {"apply_outcome", "execute_action"}
         /\ LastOutcome.kind = "Work"
         /\ LastOutcome.success
         /\ ~IsNone(pre.employment) )
       => LET h0 == Get(pre.employment).performance_history
              h1 == Get(agent.employment).performance_history
              p  == LastOutcome.performance
          IN  /\ h1.recent_performances =
                     LastN(12, Append(h0.recent_performances, p))
              /\ h1.average_performance = Mean(h1.recent_performances)
              /\ h1.warnings_received =
                     h0.warnings_received + (IF p < 50 THEN 1 ELSE 0)
              /\ h1.months_employed = h0.months_employed + 1

\* a poor performance was applied with 12 scores kept: the oldest score was
\* dropped and a warning was added
C15_Witness ==
    /\ last.op = "apply_outcome"
    /\ LastOutcome.kind = "Work"
    /\ LastOutcome.performance < 50
    /\ ~IsNone(pre.employment)
    /\ Len(Get(pre.employment).performance_history.recent_performances) = 12
    /\ Get(agent.employment).performance_history.recent_performances[1] =
           Get(pre.employment).performance_history.recent_performances[2]
    /\ Get(agent.employment).performance_history.warnings_received >= 1

\* the rent of an agent's home, 0 for a homeless agent
RentOf(a) == IF IsNone(a.home) THEN 0 ELSE Get(a.home).monthly_rent

\* C16: a JobSearchOutcome with job_found replaces employment by a fresh
\* EmploymentInfo of that quality with a positive base salary and sets
\* monthly_expenses from the job; a HousingSearchOutcome with housing_found
\* replaces home by a HousingInfo of that quality and rent, and
\* monthly_expenses changes when the rent does; with nothing found
\* employment, home and monthly_expenses stay as they were.
C16_SearchesReplaceRecords ==
    (Applied /\ LastOutcome.success /\ ~last.raised) =>
        LET o == LastOutcome
        IN  /\ (o.kind = "JobSearch" /\ o.job_found) =>
                /\ ~IsNone(agent.employment)
                /\ Get(agent.employment).job_quality = o.job_quality
                /\ Get(agent.employment).base_salary > 0
                /\ Get(agent.employment).performance_history
                       = WorkPerformanceHistory0
                /\ agent.monthly_expenses = 60000 + o.job_quality * 400
                /\ agent.home = pre.home
            /\ (o.kind = "HousingSearch" /\ o.housing_found) =>
                /\ agent.home =
                       Some(HousingInfo(o.housing_quality, o.rent_cost))
                /\ agent.employment = pre.employment
                /\ o.rent_cost # RentOf(pre) =>
                       agent.monthly_expenses # pre.monthly_expenses
            /\ ( \/ o.kind = "JobSearch" /\ ~o.job_found
                 \/ o.kind = "HousingSearch" /\ ~o.housing_found ) =>
                /\ agent.employment = pre.employment
                /\ agent.home = pre.home
                /\ agent.monthly_expenses = pre.monthly_expenses

\* C17: applying a successful outcome the generator produced never raises,
\* not even for a gambling loss of the agent's whole wealth, after which
\* wealth is 0 and stress at most 1.
C17_ApplyNeverRaises ==
    ( /\ last.op \in {"execute_action", "apply_generated"}
      /\ LastOutcome.success )
    => /\ ~last.raised
       /\ ( /\ LastOutcome.kind = "Gambling"
            /\ pre.wealth > 0
            /\ -LastOutcome.monetary_change = pre.wealth )
          => (agent.wealth = 0 /\ agent.stress <= 100)

\* C19: a generate_outcome call that fails on a constraint has drawn no
\* random number when the action is WORK, GAMBLE or DRINK, and exactly one,
\* the move cost, when it is MOVE_HOME.
C19_FailureConsumesNoRandomness ==
    (Generates /\ ~LastOutcome.success) =>
        last.random_calls =
            IF LastAction.action_type = "MOVE_HOME" THEN 1 ELSE 0

\* a move failed on its cost after the one draw of that cost
C19_Witness ==
    /\ last.op = "generate_outcome"
    /\ LastAction.action_type = "MOVE_HOME"
    /\ ~LastOutcome.success
    /\ LastOutcome.move_cost = 0
    /\ last.random_calls = 1

\* C20: after any sequence of update_internal_states and
\* process_environmental_cues calls with cue intensities in [0,1], both
\* craving intensities and stress are in [0,1].
C20_CravingsAndStressInBounds ==
    /\ agent.craving_alcohol \in 0..100
    /\ agent.craving_gambling \in 0..100
    /\ agent.stress \in 0..100

\* C18: make_decision (and through it choose_action) with an empty action
\* list raises before it evaluates an action, draws a random number or
\* changes the agent; and a turn of the
\* simulation asks for a decision only with a non-empty list: an agent with
\* no available action gets no decision and no outcome.
C18_EmptyActionListIsHardFailure ==
    /\ (last.op = "make_decision" /\ last.offered = <<>>) =>
          /\ last.raised
          /\ last.evaluated = 0
          /\ last.random_calls = 0
          /\ IsNone(last.action)
          /\ agent = pre
    /\ last.op = "process_agent_turn" =>
          /\ last.decided => last.offered # <<>>
          /\ (last.listed /\ last.offered = <<>>) =>
                /\ ~last.decided
                /\ IsNone(last.action)
                /\ IsNone(last.outcome)
                /\ ~last.caught
                /\ agent.action_history = pre.action_history
                /\ agent.spent_hours = pre.spent_hours

\* an agent with no hours left for any action was asked for a decision with
\* its empty action list, and the call raised
C18_Witness ==
    /\ last.op = "make_decision"
    /\ last.offered = <<>>
    /\ last.raised
    /\ generate_available_actions(agent) = <<>>

\* C21: in every agent state the four weights returned by
\* _calculate_state_dependent_weights are non-negative and sum to 1.
C21_UtilityWeightsSumToOne ==
    last.op = "weights" =>
        /\ last.weights.unit > 0
        /\ last.weights.financial >= 0
        /\ last.weights.habit >= 0
        /\ last.weights.addiction >= 0
        /\ last.weights.psychological >= 0
        /\ last.weights.financial + last.weights.habit
           + last.weights.addiction + last.weights.psychological
           = last.weights.unit

\* the weights of an agent with all three triggers on
C21_Witness ==
    /\ last.op = "weights"
    /\ high_craving(agent)
    /\ financial_pressure(agent)
    /\ high_stress(agent)

\* C22: update_addiction_stock on a stock in [0, 1] and a consumption >= 0
\* returns a stock in [0, 1], strictly below the given one when nothing is
\* consumed and the stock is positive; after any sequence of successful
\* drinking outcomes and monthly updates the stock, the tolerance and the
\* withdrawal severity are in [0, 1], the time since the last use is >= 0,
\* and a monthly update never increases the stock.
C22_AddictionBoundedAndDecays ==
    /\ last.op = "update_addiction_stock" =>
          /\ last.result \in 0..100
          /\ (last.consumption = 0 /\ last.current_stock > 0)
                => last.result < last.current_stock
    /\ agent.stock \in 0..100
    /\ agent.tolerance_level \in 0..100
    /\ agent.withdrawal_severity \in 0..100
    /\ agent.time_since_last_use >= 0
    /\ last.op = "update_internal_states" => agent.stock <= pre.stock

\* a monthly update, not the first step, lowered the positive stock of an
\* agent in withdrawal
C22_Witness ==
    /\ last.op = "update_internal_states"
    /\ agent.stock < pre.stock
    /\ agent.withdrawal_severity > 0
    /\ steps >= 2

\* C23: for a non-empty candidate list the softmax probabilities are
\* non-negative and sum to 1 (each quotient is rounded down by less than one
\* unit of the scale), a single candidate has probability 1, and
\* choose_action returns one of the candidates.
C23_SoftmaxIsDistribution ==
    /\ last.op \in {"get_action_probabilities", "choose_action"} =>
          /\ ~last.nan
          /\ Len(last.probabilities) = Len(last.offered)
          /\ \A i \in 1..Len(last.probabilities) : last.probabilities[i] >= 0
          /\ SeqTotal(last.probabilities) <= ProbScale
          /\ SeqTotal(last.probabilities)
                > ProbScale - Len(last.probabilities)
          /\ Len(last.offered) = 1 => last.probabilities[1] = ProbScale
    /\ last.op = "choose_action" =>
          /\ ~last.raised
          /\ \E i \in 1..Len(last.offered) :
                last.action = Some(last.offered[i])

\* an action was chosen among several with different probabilities, one of
\* them underflowed to 0
C23_Witness ==
    /\ last.op = "choose_action"
    /\ ~last.raised
    /\ Len(last.offered) >= 3
    /\ \E i, j, k \in 1..Len(last.offered) :
          /\ last.probabilities[i] = 0
          /\ 0 < last.probabilities[j]
          /\ last.probabilities[j] < last.probabilities[k]

\* the month of the Simulation has just completed
MonthCompleted ==
    last.op = "advance_action_round" /\ ~last.returned

\* C25: the k-th advance_action_round after start_new_month sets
\* current_round to k and returns True for k < max_rounds_per_month; the call
\* with k = max_rounds_per_month returns False and ends the month once: the
\* month's statistics are appended and the time advances by one month,
\* month 12 rolling over to month 1 of the next year.
C25_RoundProgression ==
    /\ last.op = "start_new_month" => sim.current_round = 0
    /\ last.op = "advance_action_round" =>
          LET b == last.before
              k == b.log.advances + 1
          IN  /\ sim.current_round = k
              /\ k < b.max_rounds_per_month =>
                    /\ last.returned
                    /\ sim.month = b.month /\ sim.year = b.year
                    /\ sim.monthly_stats = b.monthly_stats
                    /\ sim.log.month_ends = 0
              /\ k = b.max_rounds_per_month =>
                    /\ ~last.returned
                    /\ sim.log.month_ends = 1
                    /\ Len(sim.monthly_stats) = Len(b.monthly_stats) + 1
                    /\ SubSeq(sim.monthly_stats, 1, Len(b.monthly_stats))
                          = b.monthly_stats
                    /\ sim.monthly_stats[Len(sim.monthly_stats)].month
                          = b.month
                    /\ sim.monthly_stats[Len(sim.monthly_stats)].year
                          = b.year
                    /\ IF b.month = 12
                       THEN sim.month = 1 /\ sim.year = b.year + 1
                       ELSE sim.month = b.month + 1 /\ sim.year = b.year
                    /\ sim.current_month_stats
                          = MonthlyStats(sim.month, sim.year)

\* a December of several rounds has just completed
C25_Witness ==
    /\ MonthCompleted
    /\ last.before.month = 12
    /\ sim.current_round >= 3
    /\ sim.month = 1
    /\ sim.year = 2

\* C27: over one complete month the TimeManager deducts rent at most once
\* from each agent and pays the salary exactly once to each agent employed
\* at the start of the month, and the months at the residence of an agent
\* that keeps its home advance by exactly 1.
C27_MonthlyPaymentsOnce ==
    MonthCompleted =>
        \A i \in 1..Len(sim.agents) :
            /\ sim.log.rent_deductions[i] <= 1
            /\ ~IsNone(sim.round_start[i].employment) =>
                  sim.log.salary_payments[i] = 1
            /\ (~IsNone(sim.round_start[i].home) /\ ~IsNone(sim.agents[i].home))
                  => Get(sim.agents[i].home).months_at_residence
                       = Get(sim.round_start[i].home).months_at_residence + 1

\* C28: every event that start_new_month schedules is processed once and
\* removed before the month ends: whenever a month has just completed no
\* scheduled event is left, for every number of rounds per month.
C28_ScheduledEventsConsumed ==
    MonthCompleted =>
        /\ sim.scheduled_events = <<>>
        /\ sim.log.events_processed \in 1..2

\* C26: _process_rent_payments takes exactly the rent from each housed agent
\* that can pay it and adds a month to its residence; it evicts each housed
\* agent that cannot: no home, no location, stress + 0.4 capped at 1, mood
\* - 0.4 floored at -1, wealth unchanged, one more eviction in the month's
\* statistics; agents without a home are not touched.
C26_RentProcessing ==
    last.op = "process_rent_payments" =>
        /\ \A i \in 1..Len(sim.agents) :
              LET b == last.before.agents[i]
                  a == sim.agents[i]
              IN  /\ IsNone(b.home) => a = b
                  /\ pays_rent(b) =>
                        a = [b EXCEPT
                               !.wealth = @ - Get(b.home).monthly_rent,
                               !.home = Some([Get(b.home) EXCEPT
                                         !.months_at_residence = @ + 1])]
                  /\ is_evicted(b) =>
                        a = [b EXCEPT
                               !.home = None,
                               !.current_location = None,
                               !.stress = Min(100, @ + 40),
                               !.mood = Max(-100, @ - 40)]
        /\ sim.current_month_stats.agents_evicted
              = last.before.current_month_stats.agents_evicted
                + Cardinality({i \in 1..Len(sim.agents) :
                                  is_evicted(last.before.agents[i])})

\* one agent paid its rent and the other, somewhere in the city, was evicted
C26_Witness ==
    /\ last.op = "process_rent_payments"
    /\ \E i, j \in 1..Len(sim.agents) :
          /\ pays_rent(last.before.agents[i])
          /\ is_evicted(last.before.agents[j])
          /\ ~IsNone(last.before.agents[j].current_location)
          /\ IsNone(sim.agents[j].home)

\* C30: in every state of a simulation run the hours each agent has spent
\* this month are within [0, total_hours].
\* Every action on offer passes can_afford and a turn spends nothing or the
\* time cost of one of the actions that were on offer.
C30_BudgetNeverOverdrawn ==
    /\ \A i \in 1..Len(sim.agents) :
          /\ sim.agents[i].spent_hours >= 0
          /\ sim.agents[i].spent_hours <= total_hours
          /\ \A travel_time \in TravelTimes :
                LET offered == generate_available_actions_moving(
                                   sim.agents[i], travel_time).actions
                IN  \A k \in 1..Len(offered) :
                        sim.agents[i].spent_hours + offered[k].time_cost
                            <= total_hours
    /\ last.op = "process_agent_turn" =>
          LET i == last.returned
              b == last.before.agents[i]
              in == Get(sim.turn_inputs[i])
              offered == generate_available_actions_moving(
                             b, in.travel_time).actions
          IN  \/ sim.agents[i].spent_hours = b.spent_hours
              \/ sim.agents[i].spent_hours =
                     b.spent_hours + offered[in.selected_idx].time_cost

\* an employed agent that has worked this month took a further turn in which
\* WORK was not on offer for want of hours
C30_Witness ==
    /\ last.op = "process_agent_turn"
    /\ LET i == last.returned
           b == last.before.agents[i]
           offered == generate_available_actions_moving(
                          b, Get(sim.turn_inputs[i]).travel_time).actions
       IN  /\ ~IsNone(b.employment)
           /\ b.spent_hours >= 160
           /\ ~can_afford(b, 160)
           /\ offered # <<>>
           /\ \A k \in 1..Len(offered) : offered[k].action_type # "WORK"
           /\ sim.agents[i].spent_hours > b.spent_hours

\* C29: in every month run by the Simulation each agent is given exactly
\* rounds_per_month turns, one in each of the action rounds
\* 1..rounds_per_month.
C29_OneTurnPerRound ==
    MonthCompleted =>
        \A i \in 1..Len(sim.agents) :
            /\ sim.log.turns[i] = sim.max_rounds_per_month
            /\ sim.log.turn_rounds[i] =
                   [k \in 1..sim.max_rounds_per_month |-> k]

====
